---- MODULE Spec2Model ----
(***************************************************************************)
(* Model of the Wildberries statistics loaders:                            *)
(*   - excel_actions/adv_params_ea/transform.py      (fullstats transform) *)
(*   - excel_actions/adv_params_ea/data_validator.py (record validators)   *)
(*   - excel_actions/cr_daily_stats_ea/transform.py  (CR snapshot builder) *)
(*   - excel_actions/cr_daily_stats_ea/structure_validator.py              *)
(*   - main_function/cr_daily_stats_mf/cr_daily_stats_supabase.py          *)
(*   - main_function/adv_params_mf/adv_params_supabase.py                  *)
(*   - excel_actions/adv_params_ea/supabase_writer.py                      *)
(*   - wb_api/adv_params_api/fullstats.py                                  *)
(*   - wb_api/cr_daily_stats/cr_daily_stats.py                             *)
(*   - excel_actions/list_of_seller_articles_ea/normalize_articles.py      *)
(*                                                                         *)
(* Conventions.                                                            *)
(*   Python None is <<>> and a present value v is <<v>> wherever a value   *)
(*   is optional.  Money (Decimal) is an integer number of kopecks, the    *)
(*   derived metrics are integers of hundredths (what quantize('0.01')     *)
(*   keeps).  A Python dict is the sequence of its items in insertion      *)
(*   order, which is the order Python iterates it in.                      *)
(***************************************************************************)
EXTENDS Integers, Sequences, FiniteSets, TLC

VARIABLES
    fullstats_response,   \* argument of transform_fullstats_to_campaign_daily
    vendor_code_map,      \* argument: nm_id -> vendor_code (a partial function)
    min_views_threshold,  \* argument
    result,               \* the list returned by the last call
    calls,                \* the calls made so far: "same" (on fullstats_response) | "other"
    first_result,         \* None, or <<list>> returned by the first call on fullstats_response
    given_response,       \* the response object as it was handed over (never assigned)
    today,                \* CR pipeline: current business day (Europe/Moscow), a day number
    api_response,         \* CR pipeline: the response of the run in progress / last run
    records_today,        \* CR pipeline: first list returned by extract_cr_stats_for_supabase
    records_yesterday,    \* CR pipeline: second list returned
    cr_daily_stats,       \* CR pipeline: the table, rows keyed by <<nm_id, date_of_period>>
    products,             \* CR pipeline: the products table, nm_id -> id
    cr_pc,                \* CR pipeline: "idle" | "extracted" (the builder has returned)
    stats_list,           \* validators: the list of CampaignDailyStats handed to them
    given_stats,          \* validators: the list as it was handed over (never assigned)
    raise_on_error,       \* validators: keyword argument of the batch validator
    batch_result,         \* validators: None, or <<outcome>> of validate_..._batch
    duplicates,           \* validators: None, or <<list>> returned by check_for_duplicates
    adv_log,              \* adv main: None, or <<what the run did>>
    cr_log,               \* CR main: None, or <<what the run did>>
    use_rpc_aggregation,  \* adv main: argument
    adv_pc,               \* adv main: the step the run is at
    adv_calls,            \* adv main: the writer calls made so far, with their outcome
    retry,                \* fetch_fullstats: keyword argument
    max_retries,          \* fetch_fullstats: keyword argument
    attempts,             \* fetch_fullstats: local counter
    retries,              \* post_with_retries: argument
    attempt,              \* post_with_retries: local counter
    http_pc,              \* API client: "idle" | "loop" | "returned" | "raised"
    http_log,             \* API client: the outcomes of the requests issued so far
    http_result,          \* API client: None, or <<what the call returned or raised>>
    campaign_ids,         \* fetch_fullstats_batch: argument
    batch_size,           \* fetch_fullstats_batch: keyword argument
    batch_i,              \* fetch_fullstats_batch: the loop variable i
    all_data,             \* fetch_fullstats_batch: local list
    batch_pc,             \* fetch_fullstats_batch: "idle" | "start" | "loop" | "returned" | "raised"
    batch_events,         \* fetch_fullstats_batch: the fetches and sleeps made so far
    batch_return,         \* fetch_fullstats_batch: None, or <<the list returned>>
    period_begin,         \* CR API client: None, or <<day of payload['period']['begin']>>
    adv_campaign_daily_stats, \* adv pipeline: the detail table, rows keyed by
                          \* <<advert_id, nm_id, date>>
    adv_params_records,   \* adv pipeline: None, or <<the batch insert_adv_params_direct upserts>>
    loads,                \* adv pipeline: the number of runs that loaded the detail table
    content_cards,        \* articles pipeline: argument cards of extract_data_for_supabase
    products_data,        \* articles pipeline: None, or <<first list returned>>
    product_sizes_data    \* articles pipeline: None, or <<second list returned>>

vars == <<fullstats_response, vendor_code_map, min_views_threshold, result, calls,
          first_result, given_response, today, api_response, records_today,
          records_yesterday, cr_daily_stats, products, cr_pc, stats_list, given_stats,
          raise_on_error, batch_result, duplicates, adv_log, cr_log,
          use_rpc_aggregation, adv_pc, adv_calls, retry, max_retries, attempts, retries,
          attempt, http_pc, http_log, http_result, campaign_ids, batch_size, batch_i,
          all_data, batch_pc, batch_events, batch_return, period_begin,
          adv_campaign_daily_stats, adv_params_records, loads, content_cards, products_data,
          product_sizes_data>>

adv_vars == <<fullstats_response, vendor_code_map, min_views_threshold, result, calls,
              first_result, given_response>>

cr_vars == <<today, api_response, records_today, records_yesterday, cr_daily_stats,
             products, cr_pc>>

val_vars == <<stats_list, given_stats, raise_on_error, batch_result, duplicates>>

log_vars == <<adv_log, cr_log>>

step_vars == <<use_rpc_aggregation, adv_pc, adv_calls>>

http_vars == <<retry, max_retries, attempts, retries, attempt, http_pc, http_log, http_result>>

batch_vars == <<campaign_ids, batch_size, batch_i, all_data, batch_pc, batch_events,
                batch_return>>

agg_vars == <<adv_campaign_daily_stats, adv_params_records, loads>>

norm_vars == <<content_cards, products_data, product_sizes_data>>

io_vars == <<http_vars, batch_vars, period_begin, agg_vars, norm_vars>>

None == <<>>

Some(x) == <<x>>

(***************************************************************************)
(* Bounds of the model.                                                    *)
(***************************************************************************)
MaxApps == 2        \* platform blocks per day
MaxEntries == 2     \* article entries per day, over all its platforms
MaxThreshold == 2   \* min_views_threshold ranges over 0 .. MaxThreshold
MaxCampaigns == 2   \* campaigns per response
MaxDays == 2        \* day entries per response, over all its campaigns
MaxRuns == 3        \* calls of the transformer in one behaviour
MaxCards == 2       \* cards per conversion-rate response
MaxDay == 2         \* the clock of the CR pipeline runs over days 1 .. MaxDay
MaxRecords == 3     \* records in a list handed to the validators
MaxOrdersCount == 8 \* ordersCount of a period block
MaxOrdersSum == 12  \* ordersSumRub of a period block, in rubles
MaxRetries == 2     \* max_retries ranges over 0 .. MaxRetries
MaxPostRetries == 3 \* retries of post_with_retries ranges over 0 .. MaxPostRetries
MaxIds == 5         \* campaign ids handed to fetch_fullstats_batch
MaxBatchSize == 3   \* batch_size ranges over 1 .. MaxBatchSize, and the refused 101
MaxLoads == 2       \* adv runs that load the detail table before an aggregation
MaxContentCards == 2   \* content cards per call of extract_data_for_supabase

SeqsUpTo(S, n) == UNION {[1 .. k -> S] : k \in 0 .. n}

(***************************************************************************)
(* Metric Calculator: transform.py, _calculate_cpc/_calculate_ctr/_cpm.    *)
(***************************************************************************)

\* Decimal.quantize(Decimal('0.01')) of n/d expressed in hundredths: the
\* default context rounds half to even. n >= 0, d > 0.
RoundHalfEven(n, d) ==
    LET q == n \div d
        r == n % d
    IN  IF 2 * r < d THEN q
        ELSE IF 2 * r > d THEN q + 1
        ELSE IF q % 2 = 0 THEN q ELSE q + 1

_calculate_cpc(sum_value, clicks) ==
    IF clicks = 0 THEN None ELSE Some(RoundHalfEven(sum_value, clicks))

\* faulty variant: a zero rate instead of an absent one when there are no views
_calculate_ctr_zero(clicks, views) ==
    IF views = 0 THEN Some(0) ELSE Some(RoundHalfEven(clicks * 10000, views))

_calculate_ctr(clicks, views) ==
    IF views = 0 THEN None ELSE Some(RoundHalfEven(clicks * 10000, views))

\* faulty variant: the cost per hundred views instead of per thousand
_calculate_cpm_per_hundred(sum_value, views) ==
    IF views = 0 THEN None ELSE Some(RoundHalfEven(sum_value * 100, views))

_calculate_cpm(sum_value, views) ==
    IF views = 0 THEN None ELSE Some(RoundHalfEven(sum_value * 1000, views))

(***************************************************************************)
(* Per-Article Aggregator: transform.py, _aggregate_nm_metrics_by_platforms *)
(***************************************************************************)

\* index of key nm_id in the dict, 0 when absent
IndexOf(nm_metrics, nm_id) ==
    IF \E i \in 1 .. Len(nm_metrics) : nm_metrics[i].nm_id = nm_id
    THEN CHOOSE i \in 1 .. Len(nm_metrics) : nm_metrics[i].nm_id = nm_id
    ELSE 0

\* lines 176-182: the entry created at the first sight of an article
NewMetrics(nm_id) ==
    [nm_id |-> nm_id, views |-> 0, clicks |-> 0, sum |-> 0, cpc_list |-> <<>>]

\* faulty variant: views assigned instead of added
AccumulateLastViews(m, nm) ==
    [m EXCEPT !.views = nm.views,
              !.clicks = @ + nm.clicks,
              !.sum = @ + nm.sum,
              !.cpc_list = IF nm.cpc > 0 THEN Append(@, nm.cpc) ELSE @]

\* lines 185-192: one article entry added to its running totals
Accumulate(m, nm) ==
    [m EXCEPT !.views = @ + nm.views,
              !.clicks = @ + nm.clicks,
              !.sum = @ + nm.sum,
              !.cpc_list = IF nm.cpc > 0 THEN Append(@, nm.cpc) ELSE @]

\* lines 171-192: the body of the inner loop for one entry nm
AddNm(nm_metrics, nm) ==
    IF nm.nmId = 0 THEN nm_metrics
    ELSE LET i == IndexOf(nm_metrics, nm.nmId)
         IN  IF i = 0
             THEN Append(nm_metrics, Accumulate(NewMetrics(nm.nmId), nm))
             ELSE [nm_metrics EXCEPT ![i] = Accumulate(@, nm)]

RECURSIVE AddNms(_, _)
AddNms(nm_metrics, nms) ==
    IF nms = <<>> THEN nm_metrics
    ELSE AddNms(AddNm(nm_metrics, Head(nms)), Tail(nms))

RECURSIVE AddApps(_, _)
AddApps(nm_metrics, apps) ==
    IF apps = <<>> THEN nm_metrics
    ELSE AddApps(AddNms(nm_metrics, Head(apps).nms), Tail(apps))

_aggregate_nm_metrics_by_platforms(apps) == AddApps(<<>>, apps)

(***************************************************************************)
(* Fullstats Transformer: transform.py, transform_fullstats_to_campaign_... *)
(***************************************************************************)

\* A date string is [day, suffix]: the calendar day it names and what follows
\* the date part ("" or a time with a zone suffix). _parse_date keeps the day.
_parse_date(date_str) == date_str.day

\* dict.get(key): None when the key is absent
DictGet(d, k) == IF k \in DOMAIN d THEN Some(d[k]) ELSE None

\* faulty variant: only a missing key counts, an empty code passes
NoVendorCodeMissingOnly(vc) == vc = None

\* `not vendor_code`: absent, or the empty string
NoVendorCode(vc) == vc = None \/ vc[1] = ""

\* faulty variant: the threshold itself is filtered out too
BelowOrAtThreshold(views, threshold) == views <= threshold

\* line 119: the threshold filter
BelowThreshold(views, threshold) == views < threshold

RECURSIVE ClicksOfNms(_)
ClicksOfNms(nms) == IF nms = <<>> THEN 0 ELSE Head(nms).clicks + ClicksOfNms(Tail(nms))

RECURSIVE ClicksOfApps(_)
ClicksOfApps(apps) ==
    IF apps = <<>> THEN 0 ELSE ClicksOfNms(Head(apps).nms) + ClicksOfApps(Tail(apps))

\* faulty variant: the day's orders re-derived from the platform blocks
DayOrdersFromApps(day) == day.orders + ClicksOfApps(day.apps)

\* lines 111-112: the day-level order fields
DayOrders(day) == day.orders

DaySumPrice(day) == day.sum_price

\* lines 135-148
CampaignDailyStats(advert_id, day, metrics, vendor_code) ==
    [advert_id |-> advert_id,
     nm_id |-> metrics.nm_id,
     vendor_code |-> vendor_code,
     date |-> _parse_date(day.date[1]),
     views |-> metrics.views,
     clicks |-> metrics.clicks,
     sum |-> metrics.sum,
     cpc |-> _calculate_cpc(metrics.sum, metrics.clicks),
     ctr |-> _calculate_ctr(metrics.clicks, metrics.views),
     orders |-> DayOrders(day),
     orders_sum |-> DaySumPrice(day),
     cpm |-> _calculate_cpm(metrics.sum, metrics.views)]

\* lines 118-150: the loop over nm_metrics.items()
RECURSIVE EmitArticles(_, _, _, _, _, _)
EmitArticles(acc, advert_id, day, nm_metrics, vmap, threshold) ==
    IF nm_metrics = <<>> THEN acc
    ELSE LET metrics == Head(nm_metrics)
             vc == DictGet(vmap, metrics.nm_id)
             rest == Tail(nm_metrics)
         IN  IF BelowThreshold(metrics.views, threshold)
             THEN EmitArticles(acc, advert_id, day, rest, vmap, threshold)
             ELSE IF NoVendorCode(vc)
             THEN EmitArticles(acc, advert_id, day, rest, vmap, threshold)
             ELSE EmitArticles(Append(acc, CampaignDailyStats(advert_id, day, metrics, vc[1])),
                               advert_id, day, rest, vmap, threshold)

\* lines 102-150: the loop over the days of one campaign
RECURSIVE EmitDays(_, _, _, _, _)
EmitDays(acc, advert_id, days, vmap, threshold) ==
    IF days = <<>> THEN acc
    ELSE LET day == Head(days)
         IN  IF day.date = None
             THEN EmitDays(acc, advert_id, Tail(days), vmap, threshold)
             ELSE EmitDays(EmitArticles(acc, advert_id, day,
                                        _aggregate_nm_metrics_by_platforms(day.apps),
                                        vmap, threshold),
                           advert_id, Tail(days), vmap, threshold)

\* faulty variant: a campaign without an id is processed like any other
NoAdvertIdNever(campaign) == FALSE

\* line 97: `not advert_id`, advertId 0 standing for the falsy ids
NoAdvertId(campaign) == campaign.advertId = 0

\* lines 95-150: the loop over the campaigns
RECURSIVE EmitCampaigns(_, _, _, _)
EmitCampaigns(acc, response, vmap, threshold) ==
    IF response = <<>> THEN acc
    ELSE LET campaign == Head(response)
         IN  IF NoAdvertId(campaign)
             THEN EmitCampaigns(acc, Tail(response), vmap, threshold)
             ELSE EmitCampaigns(EmitDays(acc, campaign.advertId, campaign.days, vmap, threshold),
                                Tail(response), vmap, threshold)

\* faulty variant: the list outlives the call and keeps the records of earlier runs
InitialResultShared == result

\* line 93: result = [] at the start of every call
InitialResult == <<>>

transform_fullstats_to_campaign_daily(response, vmap, threshold) ==
    EmitCampaigns(InitialResult, response, vmap, threshold)

(***************************************************************************)
(* Field validator: data_validator.py, validate_campaign_daily_stats.      *)
(* A record's date is a day number, the value _parse_date returns, so the  *)
(* isinstance(stats.date, date) check of line 42 passes for every record.  *)
(***************************************************************************)

\* str.strip() on the vendor codes drawn: " " is the all-blank one
Strip(vendor_code) == IF vendor_code = " " THEN "" ELSE vendor_code

\* the messages of the checks that fail, in the order of the checks
Check(failed, message) == IF failed THEN <<message>> ELSE <<>>

\* lines 30-76: the errors list
ValidationErrors(stats) ==
    Check(stats.advert_id <= 0, "Invalid advert_id")
    \o Check(stats.nm_id <= 0, "Invalid nm_id")
    \o Check(stats.vendor_code = "" \/ Strip(stats.vendor_code) = "", "Empty vendor_code")
    \o Check(stats.views < 0, "Negative views")
    \o Check(stats.clicks < 0, "Negative clicks")
    \o Check(stats.sum < 0, "Negative sum")
    \o Check(stats.orders < 0, "Negative orders")
    \o Check(stats.orders_sum < 0, "Negative orders_sum")
    \o Check(stats.cpc # None /\ stats.cpc[1] < 0, "Negative cpc")
    \o Check(stats.ctr # None /\ (stats.ctr[1] < 0 \/ stats.ctr[1] > 10000), "Invalid ctr")
    \o Check(stats.cpm # None /\ stats.cpm[1] < 0, "Negative cpm")
    \o Check(stats.clicks > stats.views, "Clicks > views")
    \o Check(stats.cpc # None /\ stats.clicks = 0, "CPC is set but clicks = 0")

\* lines 78-79: None (returns), or <<the errors the exception message lists>>
validate_campaign_daily_stats(stats) ==
    IF ValidationErrors(stats) # <<>> THEN Some(ValidationErrors(stats)) ELSE None

(***************************************************************************)
(* Batch validator: data_validator.py, validate_campaign_daily_stats_batch *)
(***************************************************************************)

\* line 115: f"Record {i+1}/{len(stats_list)}: {e}", i + 1 being position
ErrorMsg(position, total, e) == [record |-> position, of |-> total, cause |-> e]

\* faulty variant: a batch with some valid record is called valid
BatchReportValidIfAny(total, errors, valid_count, invalid_count) ==
    [valid |-> valid_count > 0, total |-> total, valid_count |-> valid_count,
     invalid_count |-> invalid_count, errors |-> errors]

\* lines 121-127
BatchReport(total, errors, valid_count, invalid_count) ==
    [valid |-> invalid_count = 0, total |-> total, valid_count |-> valid_count,
     invalid_count |-> invalid_count, errors |-> errors]

\* faulty variant: the first invalid record is let through
FailFastFromSecond(raise_flag, invalid_count) == raise_flag /\ invalid_count > 1

\* line 118: if raise_on_error
FailFast(raise_flag, invalid_count) == raise_flag

\* lines 109-127: the loop from position i on.  The outcome says whether
\* DataValidationError left the call, with which message, what was returned
\* otherwise, and how many records validate_campaign_daily_stats was given.
RECURSIVE BatchFrom(_, _, _, _, _, _)
BatchFrom(list, i, raise_flag, errors, valid_count, invalid_count) ==
    IF i > Len(list)
    THEN [raised |-> FALSE, message |-> None, examined |-> Len(list),
          report |-> Some(BatchReport(Len(list), errors, valid_count, invalid_count))]
    ELSE LET e == validate_campaign_daily_stats(list[i])
         IN  IF e = None
             THEN BatchFrom(list, i + 1, raise_flag, errors, valid_count + 1, invalid_count)
             ELSE IF FailFast(raise_flag, invalid_count + 1)
             THEN [raised |-> TRUE, message |-> Some(ErrorMsg(i, Len(list), e[1])),
                   examined |-> i, report |-> None]
             ELSE BatchFrom(list, i + 1, raise_flag,
                            Append(errors, ErrorMsg(i, Len(list), e[1])),
                            valid_count, invalid_count + 1)

validate_campaign_daily_stats_batch(list, raise_flag) ==
    BatchFrom(list, 1, raise_flag, <<>>, 0, 0)

(***************************************************************************)
(* Duplicate detector: data_validator.py, check_for_duplicates             *)
(***************************************************************************)
StatsKey(stats) == <<stats.advert_id, stats.nm_id, stats.date>>

\* lines 148-150: f"Duplicate: advert_id=..., nm_id=..., date=..."
DuplicateMessage(stats) ==
    [text |-> "Duplicate", advert_id |-> stats.advert_id, nm_id |-> stats.nm_id,
     date |-> stats.date]

\* faulty variant: only the key seen last is remembered
SeenAfterLastOnly(seen, key) == {key}

\* line 151: seen.add(key)
SeenAfter(seen, key) == seen \cup {key}

\* lines 143-151: the loop from position i on
RECURSIVE DuplicatesFrom(_, _, _, _)
DuplicatesFrom(list, i, seen, found) ==
    IF i > Len(list) THEN found
    ELSE LET key == StatsKey(list[i])
         IN  IF key \in seen
             THEN DuplicatesFrom(list, i + 1, seen, Append(found, DuplicateMessage(list[i])))
             ELSE DuplicatesFrom(list, i + 1, SeenAfter(seen, key), found)

check_for_duplicates(list) == DuplicatesFrom(list, 1, {}, <<>>)

(***************************************************************************)
(* Conversion-Rate Snapshot Builder: cr_daily_stats_ea/transform.py        *)
(*                                                                         *)
(* A card is [nmID, vendorCode, selectedPeriod, previousPeriod, stocks].   *)
(* nmID 0 and vendorCode "" stand for the falsy values (None, 0, "").      *)
(* A period is None (absent, null or {}) or <<dict>>.  stocks is           *)
(* [kind |-> "absent"] (no key), [kind |-> "null"] (JSON null) or          *)
(* [kind |-> "dict", stocksMp, stocksWb] with optional values.             *)
(***************************************************************************)

\* faulty variant: no orders priced at zero
calculate_order_price_zero(period_data) ==
    LET count == period_data.ordersCount
        sum_rub == period_data.ordersSumRub
    IN  IF sum_rub = None THEN None
        ELSE IF count = None \/ count[1] <= 0 THEN Some(0)
        ELSE Some(RoundHalfEven(sum_rub[1] * 100, count[1]))

\* lines 63-68: round(sum_rub / count, 2) in hundredths of a rouble.  The
\* quotient of two integers lies half-way between two hundredths only when it
\* is an odd number of eighths for the counts drawn here; a float holds it
\* exactly and round() gives the even hundredth.
calculate_order_price(period_data) ==
    LET count == period_data.ordersCount
        sum_rub == period_data.ordersSumRub
    IN  IF count # None /\ count[1] > 0 /\ sum_rub # None
        THEN Some(RoundHalfEven(sum_rub[1] * 100, count[1]))
        ELSE None

\* card.get('stocks', {}): the default only replaces a missing key
CardStocks(card) ==
    CASE card.stocks.kind = "absent" -> Some([stocksMp |-> None, stocksWb |-> None])
      [] card.stocks.kind = "null" -> None
      [] OTHER -> Some([stocksMp |-> card.stocks.stocksMp, stocksWb |-> card.stocks.stocksWb])

\* lines 93-120
build_record(nm_id, vendor_code, date, period_data, stocks) ==
    LET record == [nm_id |-> nm_id,
                   vendor_code |-> vendor_code,
                   date_of_period |-> date,
                   open_card_count |-> period_data.openCardCount,
                   add_to_cart_count |-> period_data.addToCartCount,
                   orders_count |-> period_data.ordersCount,
                   cancel_count |-> period_data.cancelCount,
                   orders_sum_rub |-> period_data.ordersSumRub,
                   add_to_cart_percent |-> period_data.addToCartPercent,
                   cart_to_order_percent |-> period_data.cartToOrderPercent,
                   order_price |-> calculate_order_price(period_data)]
    IN  IF stocks # None
        THEN record @@ [stocks_mp |-> stocks[1].stocksMp, stocks_wb |-> stocks[1].stocksWb]
        ELSE record

\* line 169: the stocks handed to the selectedPeriod record
SelectedPeriodStocks(card) == CardStocks(card)

\* faulty variant: the previousPeriod record is handed the card's stocks too
PreviousPeriodStocksOfCard(card) == CardStocks(card)

\* line 181: the stocks handed to the previousPeriod record
PreviousPeriodStocks(card) == None

\* faulty variant: only the article id is looked at
SkipCardWithoutId(card) == card.nmID = 0

\* line 155: if not nm_id or not vendor_code: continue
SkipCard(card) == card.nmID = 0 \/ card.vendorCode = ""

\* lines 151-183: both lists after the loop over the cards
RECURSIVE ExtractCards(_, _, _)
ExtractCards(acc, cards, today_str) ==
    IF cards = <<>> THEN acc
    ELSE LET card == Head(cards)
             yesterday_str == today_str - 1
         IN  IF SkipCard(card)
             THEN ExtractCards(acc, Tail(cards), today_str)
             ELSE ExtractCards(
                    [today |->
                        IF card.selectedPeriod # None
                        THEN Append(acc.today,
                                    build_record(card.nmID, card.vendorCode, today_str,
                                                 card.selectedPeriod[1],
                                                 SelectedPeriodStocks(card)))
                        ELSE acc.today,
                     yesterday |->
                        IF card.previousPeriod # None
                        THEN Append(acc.yesterday,
                                    build_record(card.nmID, card.vendorCode, yesterday_str,
                                                 card.previousPeriod[1],
                                                 PreviousPeriodStocks(card)))
                        ELSE acc.yesterday],
                    Tail(cards), today_str)

\* returns [today |-> records_today, yesterday |-> records_yesterday]
extract_cr_stats_for_supabase(response, now_date) ==
    ExtractCards([today |-> <<>>, yesterday |-> <<>>], response.cards, now_date)

(***************************************************************************)
(* Inputs of the fullstats transformer.                                    *)
(***************************************************************************)

\* nmId 0 stands for the falsy ids (None, 0) that line 172 skips
NmIds == {0, 1, 2}

\* counters as the API reports them: naturals, clicks not tied to views
MetricSamples ==
    {[views |-> 0, clicks |-> 0, sum |-> 0],
     [views |-> 1, clicks |-> 0, sum |-> 0],
     [views |-> 1, clicks |-> 1, sum |-> 2000],
     [views |-> 0, clicks |-> 1, sum |-> 1]}

\* the entry's own cpc is the API's sum / clicks of that entry
NmEntry(n, m) ==
    [nmId |-> n, views |-> m.views, clicks |-> m.clicks, sum |-> m.sum,
     cpc |-> IF m.clicks > 0 THEN m.sum \div m.clicks ELSE 0]

NmEntries == {NmEntry(n, m) : n \in NmIds, m \in MetricSamples}

\* the ways to cut a list of n items into at most k consecutive blocks: the
\* sizes of the blocks
RECURSIVE SumSeq(_)
SumSeq(q) == IF q = <<>> THEN 0 ELSE Head(q) + SumSeq(Tail(q))

SplitSizes(n, k) == {q \in SeqsUpTo(0 .. n, k) : SumSeq(q) = n /\ (n > 0 => q # <<>>)}

\* the block of a list that starts after `skip` items and holds `size` items
Block(list, skip, size) == [i \in 1 .. size |-> list[skip + i]]

RECURSIVE Skipped(_, _)
Skipped(sizes, b) == IF b = 1 THEN 0 ELSE sizes[b - 1] + Skipped(sizes, b - 1)

\* the platform blocks holding the entries, cut as sizes says
SplitApps(entries, sizes) ==
    [b \in 1 .. Len(sizes) |-> [nms |-> Block(entries, Skipped(sizes, b), sizes[b])]]

DateStrings ==
    {[day |-> 28, suffix |-> ""],
     [day |-> 28, suffix |-> "T00:00:00Z"],
     [day |-> 29, suffix |-> ""]}

DayTotals == {[orders |-> 0, sum_price |-> 0], [orders |-> 5, sum_price |-> 25000]}

VendorMaps ==
    {(1 :> "VC-1") @@ (2 :> "VC-2"),
     (1 :> "VC-1"),
     (1 :> "VC-1") @@ (2 :> "")}

FullVendorMap == (1 :> "VC-1") @@ (2 :> "VC-2")

\* one campaign with one day: the day's content varies
DayResponse(apps, totals) ==
    <<[advertId |-> 1,
       days |-> <<[date |-> Some([day |-> 28, suffix |-> ""]),
                   orders |-> totals.orders, sum_price |-> totals.sum_price,
                   apps |-> apps]>>]>>

\* several campaigns and days: the keys vary, the content of a day is simple
KeyApps ==
    {<<[nms |-> <<NmEntry(n, [views |-> 1, clicks |-> 1, sum |-> 2000])>>]>> :
       n \in NmIds \ {0}}

KeyDays ==
    {[date |-> d, orders |-> 0, sum_price |-> 0, apps |-> a] :
       d \in {None} \cup {Some(x) : x \in DateStrings}, a \in KeyApps}

\* advertId 0 stands for the falsy ids (None, 0) that line 97 skips
AdvertIds == {0, 1, 2}

\* the campaigns holding the day entries, cut as sizes says
KeyResponse(days, sizes, ids) ==
    [c \in 1 .. Len(sizes) |->
        [advertId |-> ids[c], days |-> Block(days, Skipped(sizes, c), sizes[c])]]

\* the input of the runs made in between two runs on fullstats_response
OtherResponse ==
    <<[advertId |-> 2,
       days |-> <<[date |-> Some([day |-> 29, suffix |-> ""]), orders |-> 5,
                   sum_price |-> 25000,
                   apps |-> <<[nms |-> <<NmEntry(1, [views |-> 1, clicks |-> 0, sum |-> 0])>>]>>]>>]>>

\* counters whose quotients need rounding, and the two platforms of the
\* documented scenario (10 views, 2 clicks, 20.00 and an idle platform)
TotalsSamples ==
    {[views |-> 10, clicks |-> 2, sum |-> 2000],
     [views |-> 0, clicks |-> 0, sum |-> 0],
     [views |-> 3, clicks |-> 1, sum |-> 1000],
     [views |-> 1, clicks |-> 1, sum |-> 5]}

TotalsEntries == {NmEntry(n, m) : n \in NmIds \ {0}, m \in TotalsSamples}

\* inputs with entries the transformer skips: platform blocks holding entries
\* without an article id, days without a date, campaigns without an id or
\* without days
SkipApps ==
    {<<>>,
     <<[nms |-> <<NmEntry(1, [views |-> 1, clicks |-> 1, sum |-> 2000])>>]>>,
     <<[nms |-> <<NmEntry(0, [views |-> 1, clicks |-> 1, sum |-> 2000])>>]>>,
     <<[nms |-> <<NmEntry(0, [views |-> 1, clicks |-> 0, sum |-> 0]),
                  NmEntry(2, [views |-> 1, clicks |-> 1, sum |-> 2000])>>],
       [nms |-> <<NmEntry(2, [views |-> 1, clicks |-> 0, sum |-> 0]),
                  NmEntry(0, [views |-> 0, clicks |-> 1, sum |-> 1])>>]>>}

SkipDays ==
    {[date |-> d, orders |-> 5, sum_price |-> 25000, apps |-> a] :
       d \in {None, Some([day |-> 28, suffix |-> ""])}, a \in SkipApps}

(***************************************************************************)
(* State machine of the fullstats transformer.                             *)
(***************************************************************************)
CRIdle ==
    /\ today = 1
    /\ api_response = [cards |-> <<>>]
    /\ records_today = <<>>
    /\ records_yesterday = <<>>
    /\ cr_daily_stats = <<>>
    /\ products = <<>>
    /\ cr_pc = "idle"

ValIdle ==
    /\ stats_list = <<>>
    /\ given_stats = <<>>
    /\ raise_on_error = TRUE
    /\ batch_result = <<>>
    /\ duplicates = <<>>

LogIdle ==
    /\ adv_log = <<>>
    /\ cr_log = <<>>

StepIdle ==
    /\ use_rpc_aggregation = TRUE
    /\ adv_pc = "idle"
    /\ adv_calls = <<>>

HttpIdle ==
    /\ retry = TRUE
    /\ max_retries = 2
    /\ attempts = 0
    /\ retries = 3
    /\ attempt = 0
    /\ http_pc = "idle"
    /\ http_log = <<>>
    /\ http_result = <<>>

BatchIdle ==
    /\ campaign_ids = <<>>
    /\ batch_size = 100
    /\ batch_i = 0
    /\ all_data = <<>>
    /\ batch_pc = "idle"
    /\ batch_events = <<>>
    /\ batch_return = <<>>

\* module cr_daily_stats not imported yet
PayloadIdle == period_begin = <<>>

AggIdle ==
    /\ adv_campaign_daily_stats = <<>>
    /\ adv_params_records = <<>>
    /\ loads = 0

\* extract_data_for_supabase not called
NormIdle ==
    /\ content_cards = <<>>
    /\ products_data = <<>>
    /\ product_sizes_data = <<>>

IoIdle == HttpIdle /\ BatchIdle /\ PayloadIdle /\ AggIdle /\ NormIdle

AdvIdle ==
    /\ fullstats_response = <<>>
    /\ vendor_code_map = <<>>
    /\ min_views_threshold = 1
    /\ result = <<>>
    /\ calls = <<>>
    /\ first_result = None
    /\ given_response = <<>>

NotCalled ==
    /\ result = <<>>
    /\ calls = <<>>
    /\ first_result = None
    /\ given_response = fullstats_response

\* any batch of campaigns, the default threshold, every article known
Init ==
    /\ \E n \in 0 .. MaxDays :
         \E days \in [1 .. n -> KeyDays], sizes \in SplitSizes(n, MaxCampaigns) :
            \E ids \in [1 .. Len(sizes) -> AdvertIds] :
                fullstats_response = KeyResponse(days, sizes, ids)
    /\ vendor_code_map = FullVendorMap
    /\ min_views_threshold = 1
    /\ NotCalled
    /\ CRIdle
    /\ ValIdle
    /\ LogIdle
    /\ StepIdle
    /\ IoIdle

\* one campaign day of any content, any threshold, any vendor-code map
InitDay ==
    /\ \E n \in 0 .. MaxEntries :
         \E entries \in [1 .. n -> NmEntries], sizes \in SplitSizes(n, MaxApps) :
            \E totals \in DayTotals :
                fullstats_response = DayResponse(SplitApps(entries, sizes), totals)
    /\ vendor_code_map \in VendorMaps
    /\ min_views_threshold \in 0 .. MaxThreshold
    /\ NotCalled
    /\ CRIdle
    /\ ValIdle
    /\ LogIdle
    /\ StepIdle
    /\ IoIdle

\* transform_fullstats_to_campaign_daily(fullstats_response, vendor_code_map, ...)
Transform ==
    /\ Len(calls) < MaxRuns
    /\ result' = transform_fullstats_to_campaign_daily(fullstats_response, vendor_code_map,
                                                       min_views_threshold)
    /\ first_result' = IF first_result = None THEN Some(result') ELSE first_result
    /\ calls' = Append(calls, "same")
    /\ UNCHANGED <<fullstats_response, vendor_code_map, min_views_threshold, given_response>>
    /\ UNCHANGED cr_vars
    /\ UNCHANGED <<val_vars, log_vars>>
    /\ UNCHANGED step_vars
    /\ UNCHANGED io_vars

\* a run of the transformer on another response
TransformOther ==
    /\ Len(calls) < MaxRuns
    /\ result' = transform_fullstats_to_campaign_daily(OtherResponse, vendor_code_map,
                                                       min_views_threshold)
    /\ calls' = Append(calls, "other")
    /\ UNCHANGED <<fullstats_response, vendor_code_map, min_views_threshold, given_response,
                   first_result>>
    /\ UNCHANGED cr_vars
    /\ UNCHANGED <<val_vars, log_vars>>
    /\ UNCHANGED step_vars
    /\ UNCHANGED io_vars

\* the single call of one pipeline run
TransformOnce ==
    /\ calls = <<>>
    /\ Transform

Next == Transform \/ TransformOther

Spec == Init /\ [][Next]_vars

NextDay == TransformOnce

SpecDay == InitDay /\ [][NextDay]_vars

\* one campaign day whose entries carry the larger counters, every article
\* known, the default threshold
InitTotals ==
    /\ \E n \in 0 .. MaxEntries :
         \E entries \in [1 .. n -> TotalsEntries], sizes \in SplitSizes(n, MaxApps) :
            \E totals \in DayTotals :
                fullstats_response = DayResponse(SplitApps(entries, sizes), totals)
    /\ vendor_code_map = FullVendorMap
    /\ min_views_threshold = 1
    /\ NotCalled
    /\ CRIdle
    /\ ValIdle
    /\ LogIdle
    /\ StepIdle
    /\ IoIdle

NextTotals == TransformOnce

SpecTotals == InitTotals /\ [][NextTotals]_vars

\* any batch of campaigns whose days and platform blocks hold entries that are
\* skipped, every article known, the default threshold
InitSkip ==
    /\ \E n \in 0 .. MaxDays :
         \E days \in [1 .. n -> SkipDays], sizes \in SplitSizes(n, MaxCampaigns) :
            \E ids \in [1 .. Len(sizes) -> AdvertIds] :
                fullstats_response = KeyResponse(days, sizes, ids)
    /\ vendor_code_map = FullVendorMap
    /\ min_views_threshold = 1
    /\ NotCalled
    /\ CRIdle
    /\ ValIdle
    /\ LogIdle
    /\ StepIdle
    /\ IoIdle

NextSkip == TransformOnce

SpecSkip == InitSkip /\ [][NextSkip]_vars

(***************************************************************************)
(* Inputs and state machine of the validators.                             *)
(***************************************************************************)

\* a CampaignDailyStats object with the fields of __init__ (lines 23-49)
Stats(advert_id, nm_id, vendor_code, counters, metrics, orders) ==
    [advert_id |-> advert_id, nm_id |-> nm_id, vendor_code |-> vendor_code, date |-> 28,
     views |-> counters[1], clicks |-> counters[2], sum |-> counters[3],
     cpc |-> metrics[1], ctr |-> metrics[2], orders |-> orders[1],
     orders_sum |-> orders[2], cpm |-> metrics[3]]

\* records as the transformer builds them, and records it never builds
StatsSamples ==
    {Stats(1, 1, "VC-1", <<10, 2, 2000>>, <<Some(1000), Some(2000), Some(200000)>>, <<5, 25000>>),
     Stats(1, 2, "VC-2", <<0, 0, 0>>, <<None, None, None>>, <<0, 0>>),
     Stats(2, 1, "VC-1", <<1, 2, 2000>>, <<Some(1000), Some(20000), Some(2000000)>>, <<0, 0>>),
     Stats(1, 1, " ", <<10, 0, 0>>, <<None, Some(0), Some(0)>>, <<0, 0>>),
     Stats(1, 2, "VC-2", <<-1, -1, 0>>, <<None, None, None>>, <<0, 0>>),
     Stats(1, 1, "VC-1", <<10, 0, 0>>, <<Some(0), Some(0), Some(0)>>, <<0, -100>>),
     Stats(1, 1, "VC-1", <<10, 2, 2000>>, <<None, None, None>>, <<5, 25000>>),
     Stats(1, 2, "VC-2", <<0, 0, 0>>, <<None, Some(0), Some(0)>>, <<0, 0>>),
     Stats(0, 1, "VC-1", <<10, 2, 2000>>, <<Some(1000), Some(2000), Some(200000)>>, <<5, 25000>>)}

InitValidate ==
    /\ AdvIdle
    /\ CRIdle
    /\ LogIdle
    /\ StepIdle
    /\ IoIdle
    /\ \E n \in 0 .. MaxRecords : \E list \in [1 .. n -> StatsSamples] : stats_list = list
    /\ given_stats = stats_list
    /\ raise_on_error \in BOOLEAN
    /\ batch_result = None
    /\ duplicates = None

\* validate_campaign_daily_stats_batch(stats_list, raise_on_error=raise_on_error)
ValidateBatch ==
    /\ batch_result = None
    /\ batch_result' = Some(validate_campaign_daily_stats_batch(stats_list, raise_on_error))
    /\ UNCHANGED <<stats_list, given_stats, raise_on_error, duplicates>>
    /\ UNCHANGED <<adv_vars, cr_vars, log_vars>>
    /\ UNCHANGED step_vars
    /\ UNCHANGED io_vars

\* check_for_duplicates(stats_list)
CheckDuplicates ==
    /\ duplicates = None
    /\ duplicates' = Some(check_for_duplicates(stats_list))
    /\ UNCHANGED <<stats_list, given_stats, raise_on_error, batch_result>>
    /\ UNCHANGED <<adv_vars, cr_vars, log_vars>>
    /\ UNCHANGED step_vars
    /\ UNCHANGED io_vars

NextValidate == ValidateBatch \/ CheckDuplicates

SpecValidate == InitValidate /\ [][NextValidate]_vars

(***************************************************************************)
(* CR pipeline: main_function/cr_daily_stats_mf/cr_daily_stats_supabase.py *)
(***************************************************************************)

\* lines 74-84: a record is kept iff products knows its nm_id
HasProduct(record, products_map) ==
    record.nm_id \in DOMAIN products_map /\ products_map[record.nm_id] # 0

\* line 83: record['product_id'] = product_id, on the record object itself
WithProductId(record, products_map) ==
    IF HasProduct(record, products_map)
    THEN [product_id |-> products_map[record.nm_id]] @@ record
    ELSE record

\* the records of a list as line 83 leaves them
AfterEnrichment(records, products_map) ==
    [i \in 1 .. Len(records) |-> WithProductId(records[i], products_map)]

enrich_with_product_ids(records, products_map) ==
    LET Known(r) == HasProduct(r, products_map)
    IN  AfterEnrichment(SelectSeq(records, Known), products_map)

\* `r in records`: list membership by equality
InList(r, records) == \E i \in 1 .. Len(records) : records[i] = r

\* the columns of table cr_daily_stats
Columns ==
    {"nm_id", "vendor_code", "date_of_period", "open_card_count", "add_to_cart_count",
     "orders_count", "cancel_count", "orders_sum_rub", "add_to_cart_percent",
     "cart_to_order_percent", "order_price", "stocks_mp", "stocks_wb", "product_id",
     "created_at", "updated_at"}

\* upsert of one record on conflict (nm_id, date_of_period): the columns the
\* record names are written, the others keep their stored value (NULL in a
\* new row); created_at is set at the insert, updated_at at every write
UpsertRow(table, record, now) ==
    LET key == <<record.nm_id, record.date_of_period>>
    IN  IF key \in DOMAIN table
        THEN [table EXCEPT ![key] =
                 [c \in Columns |-> IF c \in DOMAIN record THEN record[c]
                                    ELSE IF c = "updated_at" THEN now
                                    ELSE @[c]]]
        ELSE (key :> [c \in Columns |-> IF c \in DOMAIN record THEN record[c]
                                        ELSE IF c \in {"created_at", "updated_at"} THEN now
                                        ELSE None])
             @@ table

\* lines 109-123: the batch, record after record; an empty batch is not sent
RECURSIVE upsert_records(_, _, _)
upsert_records(table, records, now) ==
    IF records = <<>> THEN table
    ELSE upsert_records(UpsertRow(table, Head(records), now), Tail(records), now)

(***************************************************************************)
(* Structure validator: cr_daily_stats_ea/structure_validator.py.          *)
(* The cards it is given carry an int nmID and a str vendorCode, so the    *)
(* checks of lines 83-105 pass; a period block that is present holds every *)
(* required field, and a stocks dict holds both keys.                      *)
(***************************************************************************)

\* lines 154-200: a missing, null or empty period block fails
_validate_period(period) == period # None

\* lines 72-151
_validate_card_structure(card) ==
    /\ _validate_period(card.selectedPeriod)
    /\ _validate_period(card.previousPeriod)
    /\ card.stocks.kind = "dict"

\* lines 24-69: True or False, never an exception; only the first card is
\* looked at
validate_cr_daily_stats_structure(response) ==
    IF response.cards = <<>> THEN TRUE ELSE _validate_card_structure(response.cards[1])

\* lines 148-152 of main: the validator's result is dropped, and as it has no
\* raise statement the except ValueError branch with sys.exit(1) is not taken
StructuralErrorStopsRun(response) == FALSE

\* faulty variant: the two lists hold copies that enrichment does not touch
ListAsExtracted(records, products_map) == records

\* line 83 writes product_id into the dict objects that records_today and
\* records_yesterday hold: the lists as they are at lines 175-176
ListAfterEnrichment(records, products_map) == AfterEnrichment(records, products_map)

\* one call of upsert_records
UpsertCall(label, records) == [label |-> label, records |-> records]

\* lines 138-185 of main: one run on `response` made on day `now`; outcome
\* says which upsert call, if any, raises.  table is what the run leaves in
\* cr_daily_stats; the other fields say what the run did: the enriched list,
\* the calls of upsert_records in their order, and the call that raised.
CRRun(table, response, now, products_map, outcome) ==
    LET extracted == extract_cr_stats_for_supabase(response, now)
        all_records == extracted.today \o extracted.yesterday
        enriched_records == enrich_with_product_ids(all_records, products_map)
        today_list == ListAfterEnrichment(extracted.today, products_map)
        yesterday_list == ListAfterEnrichment(extracted.yesterday, products_map)
        IsToday(r) == InList(r, today_list)
        IsYesterday(r) == InList(r, yesterday_list)
        enriched_today == SelectSeq(enriched_records, IsToday)
        enriched_yesterday == SelectSeq(enriched_records, IsYesterday)
        after_today == upsert_records(table, enriched_today, now)
        Sent(batch) == IF batch = <<>> THEN 0 ELSE 1
        structure_ok == validate_cr_daily_stats_structure(response)
        both == <<UpsertCall("today", enriched_today), UpsertCall("yesterday", enriched_yesterday)>>
    IN  IF Len(response.cards) = 0
        THEN [table |-> table, structure_ok |-> TRUE, extracted |-> FALSE, upserts |-> 0,
              enriched |-> <<>>, calls |-> <<>>, raised_in |-> "none"]
        ELSE IF StructuralErrorStopsRun(response)
        THEN [table |-> table, structure_ok |-> FALSE, extracted |-> FALSE, upserts |-> 0,
              enriched |-> <<>>, calls |-> <<>>, raised_in |-> "none"]
        ELSE IF enriched_records = <<>>
        THEN [table |-> table, structure_ok |-> structure_ok, extracted |-> TRUE,
              upserts |-> 0, enriched |-> <<>>, calls |-> <<>>, raised_in |-> "none"]
        ELSE IF outcome = "today_raises" /\ enriched_today # <<>>
        THEN [table |-> table, structure_ok |-> structure_ok, extracted |-> TRUE,
              upserts |-> 1, enriched |-> enriched_records,
              calls |-> <<UpsertCall("today", enriched_today)>>, raised_in |-> "today"]
        ELSE IF outcome = "yesterday_raises" /\ enriched_yesterday # <<>>
        THEN [table |-> after_today, structure_ok |-> structure_ok, extracted |-> TRUE,
              upserts |-> Sent(enriched_today) + 1, enriched |-> enriched_records,
              calls |-> both, raised_in |-> "yesterday"]
        ELSE [table |-> upsert_records(after_today, enriched_yesterday, now),
              structure_ok |-> structure_ok, extracted |-> TRUE,
              upserts |-> Sent(enriched_today) + Sent(enriched_yesterday),
              enriched |-> enriched_records, calls |-> both, raised_in |-> "none"]

TableAfterRun(table, response, now, products_map, outcome) ==
    CRRun(table, response, now, products_map, outcome).table

(***************************************************************************)
(* Inputs of the CR pipeline.                                              *)
(***************************************************************************)
Period(count, sum_rub) ==
    [openCardCount |-> Some(10), addToCartCount |-> Some(4), ordersCount |-> count,
     ordersSumRub |-> sum_rub, cancelCount |-> Some(0),
     addToCartPercent |-> Some(40), cartToOrderPercent |-> Some(50)]

\* None: the period block is missing, null or empty
PeriodSamples ==
    {None, Some(Period(Some(0), Some(100))), Some(Period(Some(2), Some(100)))}

StocksSamples ==
    {[kind |-> "absent", stocksMp |-> None, stocksWb |-> None],
     [kind |-> "null", stocksMp |-> None, stocksWb |-> None],
     [kind |-> "dict", stocksMp |-> None, stocksWb |-> Some(0)],
     [kind |-> "dict", stocksMp |-> Some(5), stocksWb |-> Some(7)]}

\* nmID 0 and vendorCode "" are the falsy values line 155 skips
CardIds ==
    {[nmID |-> 0, vendorCode |-> "VC"], [nmID |-> 1, vendorCode |-> "VC-1"],
     [nmID |-> 1, vendorCode |-> ""], [nmID |-> 2, vendorCode |-> "VC-2"]}

Card(id, selected, previous, stocks) ==
    [nmID |-> id.nmID, vendorCode |-> id.vendorCode, selectedPeriod |-> selected,
     previousPeriod |-> previous, stocks |-> stocks]

CardSamples ==
    {Card(id, sel, prev, st) :
       id \in CardIds, sel \in PeriodSamples, prev \in PeriodSamples, st \in StocksSamples}

\* the cards of the pipeline runs: article 1 in every shape, article 2 beside it
RunCards1 ==
    {Card([nmID |-> 1, vendorCode |-> "VC-1"], sel, prev, st) :
       sel \in {None, Some(Period(Some(2), Some(100)))},
       prev \in {None, Some(Period(Some(2), Some(100)))},
       st \in StocksSamples \ {[kind |-> "absent", stocksMp |-> None, stocksWb |-> None]}}

RunCards2 ==
    {Card([nmID |-> 2, vendorCode |-> "VC-2"], Some(Period(Some(0), Some(100))),
          Some(Period(Some(0), Some(100))),
          [kind |-> "dict", stocksMp |-> Some(1), stocksWb |-> None])}

\* responses with at most one card per article, as the API reports them
RunResponses ==
    {[cards |-> q] :
       q \in {c \in SeqsUpTo(RunCards1 \cup RunCards2, MaxCards) :
                \A i, j \in 1 .. Len(c) : i # j => c[i].nmID # c[j].nmID}}

ProductsSamples == {(1 :> 11) @@ (2 :> 12), (1 :> 11)}

UpsertOutcomes == {"ok", "today_raises", "yesterday_raises"}

(***************************************************************************)
(* State machines of the CR snapshot builder and of the CR pipeline.       *)
(***************************************************************************)

\* the builder alone: any response, called on day 2
InitExtract ==
    /\ AdvIdle
    /\ ValIdle
    /\ LogIdle
    /\ StepIdle
    /\ IoIdle
    /\ today = 2
    /\ \E n \in 0 .. MaxCards : \E cards \in [1 .. n -> CardSamples] :
           api_response = [cards |-> cards]
    /\ records_today = <<>>
    /\ records_yesterday = <<>>
    /\ cr_daily_stats = <<>>
    /\ products = <<>>
    /\ cr_pc = "idle"

\* extract_cr_stats_for_supabase(api_response)
Extract ==
    /\ cr_pc = "idle"
    /\ LET extracted == extract_cr_stats_for_supabase(api_response, today)
       IN  /\ records_today' = extracted.today
           /\ records_yesterday' = extracted.yesterday
    /\ cr_pc' = "extracted"
    /\ UNCHANGED <<today, api_response, cr_daily_stats, products>>
    /\ UNCHANGED adv_vars
    /\ UNCHANGED <<val_vars, log_vars>>
    /\ UNCHANGED step_vars
    /\ UNCHANGED io_vars

NextExtract == Extract

SpecExtract == InitExtract /\ [][NextExtract]_vars

\* the builder on one card whose selectedPeriod holds any orders and sum
OrdersCounts == {None} \cup {Some(c) : c \in 0 .. MaxOrdersCount}

OrdersSums == {None, Some(100)} \cup {Some(x) : x \in 0 .. MaxOrdersSum}

InitOrderPrice ==
    /\ AdvIdle
    /\ ValIdle
    /\ LogIdle
    /\ StepIdle
    /\ IoIdle
    /\ today = 2
    /\ \E count \in OrdersCounts, sum_rub \in OrdersSums :
           api_response =
               [cards |-> <<Card([nmID |-> 1, vendorCode |-> "VC-1"],
                                 Some(Period(count, sum_rub)), None,
                                 [kind |-> "dict", stocksMp |-> Some(5), stocksWb |-> Some(7)])>>]
    /\ records_today = <<>>
    /\ records_yesterday = <<>>
    /\ cr_daily_stats = <<>>
    /\ products = <<>>
    /\ cr_pc = "idle"

NextOrderPrice == Extract

SpecOrderPrice == InitOrderPrice /\ [][NextOrderPrice]_vars

\* the pipeline: an empty table on day 1
InitCR ==
    /\ AdvIdle
    /\ ValIdle
    /\ LogIdle
    /\ StepIdle
    /\ IoIdle
    /\ today = 1
    /\ api_response = [cards |-> <<>>]
    /\ records_today = <<>>
    /\ records_yesterday = <<>>
    /\ cr_daily_stats = <<>>
    /\ products \in ProductsSamples
    /\ cr_pc = "idle"

\* one run of main(): the response, its two lists and the enrichment are
\* locals of the run, the table is what it leaves behind
RunCR ==
    /\ \E response \in RunResponses, outcome \in UpsertOutcomes :
           cr_daily_stats' = TableAfterRun(cr_daily_stats, response, today, products, outcome)
    /\ UNCHANGED <<today, api_response, records_today, records_yesterday, products, cr_pc>>
    /\ UNCHANGED adv_vars
    /\ UNCHANGED <<val_vars, log_vars>>
    /\ UNCHANGED step_vars
    /\ UNCHANGED io_vars

\* midnight in Europe/Moscow
Midnight ==
    /\ today < MaxDay
    /\ today' = today + 1
    /\ UNCHANGED <<api_response, records_today, records_yesterday, cr_daily_stats, products,
                   cr_pc>>
    /\ UNCHANGED adv_vars
    /\ UNCHANGED <<val_vars, log_vars>>
    /\ UNCHANGED step_vars
    /\ UNCHANGED io_vars

NextCR == RunCR \/ Midnight

SpecCR == InitCR /\ [][NextCR]_vars

\* one run of main on any cards, articles repeated or not, on day 2
UpsertResponses == {[cards |-> q] : q \in SeqsUpTo(RunCards1 \cup RunCards2, MaxCards)}

InitUpserts ==
    /\ AdvIdle
    /\ ValIdle
    /\ LogIdle
    /\ StepIdle
    /\ IoIdle
    /\ today = 2
    /\ api_response = [cards |-> <<>>]
    /\ records_today = <<>>
    /\ records_yesterday = <<>>
    /\ cr_daily_stats = <<>>
    /\ products \in ProductsSamples
    /\ cr_pc = "idle"

\* main(), lines 138-185, keeping what the run handed to upsert_records
RunCRUpserts ==
    /\ cr_log = None
    /\ \E response \in UpsertResponses, outcome \in UpsertOutcomes :
         LET run == CRRun(cr_daily_stats, response, today, products, outcome)
             extracted == extract_cr_stats_for_supabase(response, today)
         IN  /\ api_response' = response
             /\ records_today' = ListAfterEnrichment(extracted.today, products)
             /\ records_yesterday' = ListAfterEnrichment(extracted.yesterday, products)
             /\ cr_daily_stats' = run.table
             /\ cr_log' = Some(run)
    /\ UNCHANGED <<today, products, cr_pc>>
    /\ UNCHANGED <<adv_vars, val_vars, adv_log, step_vars, io_vars>>

NextUpserts == RunCRUpserts

SpecUpserts == InitUpserts /\ [][NextUpserts]_vars

(***************************************************************************)
(* The two clock readings of a CR run.  wb_api/cr_daily_stats reads the    *)
(* clock when the module is imported (lines 53-55) and builds the request  *)
(* payload from it (lines 63-75); extract_cr_stats_for_supabase reads it   *)
(* again when it is called (line 140).  today is the Europe/Moscow day of  *)
(* the clock.                                                              *)
(***************************************************************************)

\* lines 53-54 and 70: the day of begin_dt, midnight of the import day
PeriodBeginDay(now_day) == now_day

InitClock ==
    /\ AdvIdle
    /\ ValIdle
    /\ LogIdle
    /\ StepIdle
    /\ HttpIdle
    /\ BatchIdle
    /\ AggIdle
    /\ NormIdle
    /\ period_begin = None
    /\ today = 1
    /\ api_response \in UpsertResponses
    /\ records_today = <<>>
    /\ records_yesterday = <<>>
    /\ cr_daily_stats = <<>>
    /\ products = <<>>
    /\ cr_pc = "idle"

\* `from wb_api.cr_daily_stats.cr_daily_stats import ...`: the module body
\* runs once and fixes the period of the payload
ImportModule ==
    /\ period_begin = None
    /\ period_begin' = Some(PeriodBeginDay(today))
    /\ UNCHANGED <<adv_vars, cr_vars, val_vars, log_vars, step_vars, http_vars, batch_vars>>
    /\ UNCHANGED <<agg_vars, norm_vars>>

\* main(): the request with the payload of the import, then the builder
ExtractAfterFetch ==
    /\ period_begin # None
    /\ Extract

NextClock == ImportModule \/ Midnight \/ ExtractAfterFetch

SpecClock == InitClock /\ [][NextClock]_vars

(***************************************************************************)
(* Both pipelines, one run each, with what the run did.                    *)
(***************************************************************************)

\* adv main, lines 164-233.  The JSON schema validate_fullstats_response
\* checks the response against is a data file: whether the response passes
\* is an input of the run.  A failure ends the run with sys.exit(1).  The
\* transformed list goes to upsert_campaign_daily_stats as it is.
AdvRun(response, vmap, threshold, schema_ok) ==
    LET transformed_stats == transform_fullstats_to_campaign_daily(response, vmap, threshold)
    IN  IF ~schema_ok
        THEN [structure_ok |-> FALSE, transformed |-> None, upserted |-> None]
        ELSE IF transformed_stats = <<>>
        THEN [structure_ok |-> TRUE, transformed |-> Some(transformed_stats),
              upserted |-> None]
        ELSE [structure_ok |-> TRUE, transformed |-> Some(transformed_stats),
              upserted |-> Some(transformed_stats)]

\* one campaign day of any content, every article known, the default
\* threshold; the CR table empty
InitPipelines ==
    /\ \E n \in 0 .. MaxEntries :
         \E entries \in [1 .. n -> NmEntries], sizes \in SplitSizes(n, MaxApps) :
            \E totals \in DayTotals :
                fullstats_response = DayResponse(SplitApps(entries, sizes), totals)
    /\ vendor_code_map = FullVendorMap
    /\ min_views_threshold = 1
    /\ NotCalled
    /\ today = 1
    /\ api_response = [cards |-> <<>>]
    /\ records_today = <<>>
    /\ records_yesterday = <<>>
    /\ cr_daily_stats = <<>>
    /\ products = (1 :> 11) @@ (2 :> 12)
    /\ cr_pc = "idle"
    /\ ValIdle
    /\ LogIdle
    /\ StepIdle
    /\ IoIdle

\* one run of adv main from the fullstats response on
RunAdvMain ==
    /\ adv_log = None
    /\ \E schema_ok \in BOOLEAN :
         LET run == AdvRun(fullstats_response, vendor_code_map, min_views_threshold, schema_ok)
         IN  /\ adv_log' = Some(run)
             /\ result' = IF run.transformed # None THEN run.transformed[1] ELSE result
             /\ calls' = IF run.transformed # None THEN Append(calls, "same") ELSE calls
             /\ first_result' = IF run.transformed # None /\ first_result = None
                                THEN run.transformed ELSE first_result
    /\ UNCHANGED <<fullstats_response, vendor_code_map, min_views_threshold, given_response>>
    /\ UNCHANGED <<cr_vars, val_vars, cr_log>>
    /\ UNCHANGED step_vars
    /\ UNCHANGED io_vars

\* one run of CR main
RunCRMain ==
    /\ cr_log = None
    /\ \E response \in RunResponses, outcome \in UpsertOutcomes :
         LET run == CRRun(cr_daily_stats, response, today, products, outcome)
         IN  /\ cr_daily_stats' = run.table
             /\ cr_log' = Some([structure_ok |-> run.structure_ok,
                                extracted |-> run.extracted, upserts |-> run.upserts])
    /\ UNCHANGED <<today, api_response, records_today, records_yesterday, products, cr_pc>>
    /\ UNCHANGED <<adv_vars, val_vars, adv_log>>
    /\ UNCHANGED step_vars
    /\ UNCHANGED io_vars

NextPipelines == RunAdvMain \/ RunCRMain

SpecPipelines == InitPipelines /\ [][NextPipelines]_vars

(***************************************************************************)
(* adv main from step 4 on, step by step:                                  *)
(* main_function/adv_params_mf/adv_params_supabase.py, lines 195-416.      *)
(* adv_pc is the step the run is at; "exit" is sys.exit(1), "return" the   *)
(* early return of line 220, "done" the end of main.  adv_calls lists the  *)
(* calls of the writer functions with whether they raised.                 *)
(***************************************************************************)

Call(fn, raised) == [fn |-> fn, raised |-> raised]

\* the strategy step 7 tries first: lines 304-306 and 320-321
FirstStrategy(use_rpc) ==
    IF use_rpc THEN "trigger_adv_params_aggregation" ELSE "insert_adv_params_direct"

\* faulty variant: the in-process strategy is run after the RPC in any case
FallsBackAlways(use_rpc, raised) == use_rpc

\* lines 312-314: the except branch around the RPC call
FallsBack(use_rpc, raised) == use_rpc /\ raised

\* one campaign day whose entries carry the larger counters, every article
\* known, the default threshold, either aggregation mode
InitSteps ==
    /\ \E n \in 0 .. MaxEntries :
         \E entries \in [1 .. n -> TotalsEntries], sizes \in SplitSizes(n, MaxApps) :
            fullstats_response =
                DayResponse(SplitApps(entries, sizes), [orders |-> 5, sum_price |-> 25000])
    /\ vendor_code_map = FullVendorMap
    /\ min_views_threshold = 1
    /\ NotCalled
    /\ CRIdle
    /\ ValIdle
    /\ LogIdle
    /\ use_rpc_aggregation \in BOOLEAN
    /\ adv_pc = "step4"
    /\ adv_calls = <<>>
    /\ IoIdle

\* lines 198-220: the transformation and the early return on an empty list
StepTransform ==
    /\ adv_pc = "step4"
    /\ result' = transform_fullstats_to_campaign_daily(fullstats_response, vendor_code_map,
                                                       min_views_threshold)
    /\ first_result' = Some(result')
    /\ calls' = Append(calls, "same")
    /\ adv_pc' = IF result' = <<>> THEN "return" ELSE "step5"
    /\ UNCHANGED <<fullstats_response, vendor_code_map, min_views_threshold, given_response>>
    /\ UNCHANGED <<cr_vars, val_vars, log_vars, use_rpc_aggregation, adv_calls>>
    /\ UNCHANGED io_vars

\* lines 228-233: the upsert into adv_campaign_daily_stats; an exception ends
\* the run with sys.exit(1)
StepUpsert ==
    /\ adv_pc = "step5"
    /\ \E raised \in BOOLEAN :
           /\ adv_calls' = Append(adv_calls, Call("upsert_campaign_daily_stats", raised))
           /\ adv_pc' = IF raised THEN "exit" ELSE "step6"
    /\ UNCHANGED <<adv_vars, cr_vars, val_vars, log_vars, use_rpc_aggregation>>
    /\ UNCHANGED io_vars

\* lines 243-295: the read-back of the detail table; an exception is printed
\* and the run goes on
StepValidateDb ==
    /\ adv_pc = "step6"
    /\ adv_pc' = "step7"
    /\ UNCHANGED <<adv_vars, cr_vars, val_vars, log_vars, use_rpc_aggregation, adv_calls>>
    /\ UNCHANGED io_vars

\* lines 303-330: the strategy tried first.  An exception of the RPC call is
\* caught by the inner except, one of the in-process call by the outer one.
StepAggregate ==
    /\ adv_pc = "step7"
    /\ \E raised \in BOOLEAN :
           /\ adv_calls' = Append(adv_calls, Call(FirstStrategy(use_rpc_aggregation), raised))
           /\ adv_pc' = IF FallsBack(use_rpc_aggregation, raised) THEN "fallback" ELSE "step8"
    /\ UNCHANGED <<adv_vars, cr_vars, val_vars, log_vars, use_rpc_aggregation>>
    /\ UNCHANGED io_vars

\* lines 314-318 and 328-330: the in-process strategy after a failed RPC; its
\* exception is caught by the outer except
StepFallback ==
    /\ adv_pc = "fallback"
    /\ \E raised \in BOOLEAN :
           adv_calls' = Append(adv_calls, Call("insert_adv_params_direct", raised))
    /\ adv_pc' = "step8"
    /\ UNCHANGED <<adv_vars, cr_vars, val_vars, log_vars, use_rpc_aggregation>>
    /\ UNCHANGED io_vars

\* lines 338-416: the read-back of adv_params; an exception is printed, and
\* main ends
StepValidateAggregated ==
    /\ adv_pc = "step8"
    /\ adv_pc' = "done"
    /\ UNCHANGED <<adv_vars, cr_vars, val_vars, log_vars, use_rpc_aggregation, adv_calls>>
    /\ UNCHANGED io_vars

NextSteps ==
    \/ StepTransform
    \/ StepUpsert
    \/ StepValidateDb
    \/ StepAggregate
    \/ StepFallback
    \/ StepValidateAggregated

SpecSteps == InitSteps /\ [][NextSteps]_vars

(***************************************************************************)
(* Writer of the adv pipeline: excel_actions/adv_params_ea/supabase_writer *)
(* A float made of a Decimal with two decimals names the same hundredths,  *)
(* so a float column holds the integer of hundredths (kopecks) too.        *)
(***************************************************************************)

\* transform.py line 61: float(x) if x is not None else None
FloatIfNotNone(x) == IF x # None THEN Some(x[1]) ELSE None

\* transform.py lines 51-66: CampaignDailyStats.to_dict
to_dict(stats) ==
    [advert_id |-> stats.advert_id,
     nm_id |-> stats.nm_id,
     vendor_code |-> stats.vendor_code,
     date |-> stats.date,
     views |-> stats.views,
     clicks |-> stats.clicks,
     sum |-> stats.sum,
     cpc |-> FloatIfNotNone(stats.cpc),
     ctr |-> FloatIfNotNone(stats.ctr),
     orders |-> stats.orders,
     orders_sum |-> stats.orders_sum,
     cpm |-> FloatIfNotNone(stats.cpm)]

\* lines 64-70: the upsert on conflict (advert_id, nm_id, date), record
\* after record
RECURSIVE upsert_campaign_daily_stats(_, _)
upsert_campaign_daily_stats(table, list) ==
    IF list = <<>> THEN table
    ELSE LET record == to_dict(Head(list))
             key == <<record.advert_id, record.nm_id, record.date>>
         IN  upsert_campaign_daily_stats(
                 (key :> record) @@ [k \in DOMAIN table \ {key} |-> table[k]], Tail(list))

\* line 175: the key detail rows are grouped by
GroupKey(row) == <<row.nm_id, row.vendor_code, row.date>>

\* the keys of the detail rows of one group
GroupRows(table, group) == {k \in DOMAIN table : GroupKey(table[k]) = group}

\* lines 174-182: a column summed over the rows of a group
RECURSIVE SumRows(_, _, _)
SumRows(table, keys, column) ==
    IF keys = {} THEN 0
    ELSE LET k == CHOOSE x \in keys : TRUE
         IN  table[k][column] + SumRows(table, keys \ {k}, column)

\* lines 199-201: float(x) if x else None; Decimal('0.00') is falsy
FloatIfTruthy(x) == IF x # None /\ x[1] # 0 THEN Some(x[1]) ELSE None

\* lines 186-204: the record of one group
AggregatedRecord(table, group) ==
    LET rows == GroupRows(table, group)
        views == SumRows(table, rows, "views")
        clicks == SumRows(table, rows, "clicks")
        total == SumRows(table, rows, "sum")
        cpc == IF clicks > 0 THEN Some(RoundHalfEven(total, clicks)) ELSE None
        cpm == IF views > 0 THEN Some(RoundHalfEven(total * 1000, views)) ELSE None
        ctr == IF views > 0 THEN Some(RoundHalfEven(clicks * 10000, views)) ELSE None
    IN  [nm_id |-> group[1],
         vendor_code |-> group[2],
         date |-> group[3],
         views |-> views,
         clicks |-> clicks,
         sum |-> total,
         cpc |-> FloatIfTruthy(cpc),
         cpm |-> FloatIfTruthy(cpm),
         ctr |-> FloatIfTruthy(ctr),
         orders |-> SumRows(table, rows, "orders"),
         orders_sum |-> SumRows(table, rows, "orders_sum")]

\* lines 148-216: the batch handed to the upsert on conflict (nm_id, date),
\* one record per group.  The order of the rows a select returns is not
\* fixed, so the batch is the set of its records; no row, no batch.
insert_adv_params_direct(table) ==
    IF DOMAIN table = {} THEN None
    ELSE Some({AggregatedRecord(table, group) :
                  group \in {GroupKey(table[k]) : k \in DOMAIN table}})

\* counters of a detail row: no clicks, clicks that cost nothing, and a cost
\* whose quotients need rounding
LoadSamples ==
    {[views |-> 1, clicks |-> 0, sum |-> 0],
     [views |-> 2, clicks |-> 1, sum |-> 0],
     [views |-> 3, clicks |-> 1, sum |-> 1000]}

LoadEntries ==
    {<<NmEntry(1, m)>> : m \in LoadSamples}
    \cup {<<NmEntry(1, m), NmEntry(2, m)>> : m \in LoadSamples}

\* the response of a run: one campaign, one day
LoadResponses ==
    {<<[advertId |-> a,
        days |-> <<[date |-> Some([day |-> 28, suffix |-> ""]), orders |-> 5,
                    sum_price |-> 25000, apps |-> <<[nms |-> e]>>]>>]>> :
       a \in AdvertIds \ {0}, e \in LoadEntries}

\* products.vendor_code as get_vendor_code_map reads it at the start of a
\* run: the code of article 1 before and after the article was renamed
LoadVendorMaps == {FullVendorMap, (1 :> "VC-1b") @@ (2 :> "VC-2")}

InitAggregate ==
    /\ AdvIdle
    /\ CRIdle
    /\ ValIdle
    /\ LogIdle
    /\ StepIdle
    /\ HttpIdle
    /\ BatchIdle
    /\ PayloadIdle
    /\ NormIdle
    /\ adv_campaign_daily_stats = <<>>
    /\ adv_params_records = None
    /\ loads = 0

\* steps 3-5 of an adv run: the vendor codes read from products, the
\* transformation, the upsert into adv_campaign_daily_stats
LoadRun ==
    /\ loads < MaxLoads
    /\ loads' = loads + 1
    /\ \E response \in LoadResponses, vmap \in LoadVendorMaps :
           adv_campaign_daily_stats' =
               upsert_campaign_daily_stats(
                   adv_campaign_daily_stats,
                   transform_fullstats_to_campaign_daily(response, vmap, 1))
    /\ UNCHANGED adv_params_records
    /\ UNCHANGED <<adv_vars, cr_vars, val_vars, log_vars, step_vars, http_vars, batch_vars,
                   period_begin, norm_vars>>

\* step 7 of an adv run with the in-process strategy
AggregateDirect ==
    /\ adv_params_records' = insert_adv_params_direct(adv_campaign_daily_stats)
    /\ UNCHANGED <<adv_campaign_daily_stats, loads>>
    /\ UNCHANGED <<adv_vars, cr_vars, val_vars, log_vars, step_vars, http_vars, batch_vars,
                   period_begin, norm_vars>>

NextAggregate == LoadRun \/ AggregateDirect

SpecAggregate == InitAggregate /\ [][NextAggregate]_vars

(***************************************************************************)
(* normalize_articles.py: extract_data_for_supabase.                       *)
(* A card is [nmID, imtID, vendorCode, title, subjectName, sizes], a key   *)
(* the card lacks being None.  sizes is None when it is not a list; a size *)
(* item is [kind, techSize, skus] with kind "dict" or "other" and skus     *)
(* None when not a list; a sku is [kind, barcode] with kind "str", "dict"  *)
(* or "other".                                                             *)
(***************************************************************************)

\* str.strip() on the strings the cards of the model carry
strip(s) ==
    CASE s = " " -> ""
      [] s = " b1 " -> "b1"
      [] OTHER -> s

\* str(d.get(key, '')).strip()
StrField(f) == IF f = None THEN "" ELSE strip(f[1])

\* lines 111-132: the entry of products a card gives, None when a check
\* skips the card
ProductEntry(card) ==
    IF card.imtID = None THEN None
    ELSE IF StrField(card.vendorCode) = "" THEN None
    ELSE IF StrField(card.title) = "" THEN None
    ELSE IF StrField(card.subjectName) = "" THEN None
    ELSE Some([nm_id |-> card.nmID[1],
               imt_id |-> card.imtID[1],
               vendor_code |-> StrField(card.vendorCode),
               title |-> StrField(card.title),
               category_wb |-> StrField(card.subjectName)])

\* line 144
TechSize(size_item) ==
    IF size_item.techSize = None \/ size_item.techSize = Some("") THEN ""
    ELSE strip(size_item.techSize[1])

\* lines 151-156: the barcode of a sku, None when the sku is skipped
Barcode(sku) ==
    IF sku.kind = "str" THEN Some(strip(sku.barcode[1]))
    ELSE IF sku.kind = "dict" THEN Some(StrField(sku.barcode))
    ELSE None

\* lines 150-170: the loop over the skus of one size item
RECURSIVE SkusLoop(_, _, _, _)
SkusLoop(acc, skus, nm_id, tech_size) ==
    IF skus = <<>> THEN acc
    ELSE LET barcode == Barcode(Head(skus))
         IN  IF barcode = None \/ barcode = Some("") \/ barcode[1] \in acc.seen_barcodes
             THEN SkusLoop(acc, Tail(skus), nm_id, tech_size)
             ELSE SkusLoop([acc EXCEPT
                               !.seen_barcodes = @ \cup {barcode[1]},
                               !.product_sizes_data =
                                   Append(@, [nm_id |-> nm_id,
                                              barcode |-> barcode[1],
                                              size |-> tech_size])],
                           Tail(skus), nm_id, tech_size)

\* lines 139-170: the loop over the size items of one card
RECURSIVE SizesLoop(_, _, _)
SizesLoop(acc, sizes, nm_id) ==
    IF sizes = <<>> THEN acc
    ELSE LET size_item == Head(sizes)
         IN  IF size_item.kind # "dict" \/ size_item.skus = None
             THEN SizesLoop(acc, Tail(sizes), nm_id)
             ELSE SizesLoop(SkusLoop(acc, size_item.skus[1], nm_id, TechSize(size_item)),
                            Tail(sizes), nm_id)

\* lines 102-170: one pass of the loop over the cards.  The article id is
\* added to seen_nm_ids before the checks of the card; a failed check leaves
\* the card with `continue`, its sizes included.
CardPass(acc, card) ==
    IF card.nmID = None THEN acc
    ELSE LET nm_id == card.nmID[1]
             first == nm_id \notin acc.seen_nm_ids
             seen == [acc EXCEPT !.seen_nm_ids = @ \cup {nm_id}]
             product == ProductEntry(card)
         IN  IF first /\ product = None THEN seen
             ELSE LET with_product ==
                          IF first
                          THEN [seen EXCEPT !.products_data = Append(@, product[1])]
                          ELSE acc
                  IN  IF card.sizes = None THEN with_product
                      ELSE SizesLoop(with_product, card.sizes[1], nm_id)

RECURSIVE CardsLoop(_, _)
CardsLoop(acc, rest) ==
    IF rest = <<>> THEN acc ELSE CardsLoop(CardPass(acc, Head(rest)), Tail(rest))

\* lines 91-172
extract_data_for_supabase(card_list) ==
    CardsLoop([products_data |-> <<>>, product_sizes_data |-> <<>>,
               seen_nm_ids |-> {}, seen_barcodes |-> {}], card_list)

StrSku(s) == [kind |-> "str", barcode |-> Some(s)]

DictSku(b) == [kind |-> "dict", barcode |-> b]

OtherSku == [kind |-> "other", barcode |-> None]

SizeItem(tech_size, skus) == [kind |-> "dict", techSize |-> tech_size, skus |-> skus]

OtherSizeItem == [kind |-> "other", techSize |-> None, skus |-> None]

\* the sizes of the cards: not a list, empty, one barcode, padded and
\* repeated barcodes, skipped items and skus, skus that are not a list
SizesSamples ==
    { None,
      Some(<<>>),
      Some(<<SizeItem(Some("M"), Some(<<StrSku("b1")>>))>>),
      Some(<<SizeItem(None, Some(<<StrSku(" b1 "), DictSku(Some("b2"))>>))>>),
      Some(<<OtherSizeItem,
             SizeItem(Some("L"), Some(<<DictSku(None), OtherSku, StrSku(" "),
                                        StrSku("b3"), StrSku("b3")>>))>>),
      Some(<<SizeItem(Some("M"), None)>>) }

\* the product fields of the cards: complete, or failing one check
FieldSamples ==
    { [imtID |-> Some(10), vendorCode |-> Some("VC-1"), title |-> Some("T"),
       subjectName |-> Some("S")],
      [imtID |-> None, vendorCode |-> Some("VC-1"), title |-> Some("T"),
       subjectName |-> Some("S")],
      [imtID |-> Some(10), vendorCode |-> None, title |-> Some("T"),
       subjectName |-> Some("S")],
      [imtID |-> Some(10), vendorCode |-> Some(" "), title |-> Some("T"),
       subjectName |-> Some("S")],
      [imtID |-> Some(10), vendorCode |-> Some("VC-1"), title |-> Some(""),
       subjectName |-> Some("S")],
      [imtID |-> Some(10), vendorCode |-> Some("VC-1"), title |-> Some("T"),
       subjectName |-> None] }

ContentCardSamples ==
    {[nmID |-> n, imtID |-> f.imtID, vendorCode |-> f.vendorCode, title |-> f.title,
      subjectName |-> f.subjectName, sizes |-> z] :
        n \in {None, Some(1), Some(2)}, f \in FieldSamples, z \in SizesSamples}

InitNormalize ==
    /\ AdvIdle
    /\ CRIdle
    /\ ValIdle
    /\ LogIdle
    /\ StepIdle
    /\ HttpIdle
    /\ BatchIdle
    /\ PayloadIdle
    /\ AggIdle
    /\ content_cards \in SeqsUpTo(ContentCardSamples, MaxContentCards)
    /\ products_data = None
    /\ product_sizes_data = None

\* list_of_seller_articles_supabase.py main, step 3
NormalizeCards ==
    /\ products_data = None
    /\ LET returned == extract_data_for_supabase(content_cards)
       IN  /\ products_data' = Some(returned.products_data)
           /\ product_sizes_data' = Some(returned.product_sizes_data)
    /\ UNCHANGED content_cards
    /\ UNCHANGED <<adv_vars, cr_vars, val_vars, log_vars, step_vars, http_vars, batch_vars,
                   period_begin, agg_vars>>

NextNormalize == NormalizeCards

SpecNormalize == InitNormalize /\ [][NextNormalize]_vars

(***************************************************************************)
(* API client of /adv/v3/fullstats: wb_api/adv_params_api/fullstats.py,    *)
(* fetch_fullstats, the request loop of lines 96-134.  The arguments have  *)
(* passed the checks of lines 77-86.  An outcome of requests.get is a      *)
(* response with a status code or a requests.RequestException.             *)
(***************************************************************************)

StatusCodes == {200, 404, 429, 500, 502, 503, 504}

Response(status) == [kind |-> "response", status_code |-> status]

TransportException == [kind |-> "exception", status_code |-> 0]

HttpOutcomes == {Response(c) : c \in StatusCodes} \cup {TransportException}

\* faulty variant: one more attempt is allowed
MayRetryOnceMore(retry_flag, attempts_made, limit) == retry_flag /\ attempts_made <= limit + 1

\* lines 116 and 130: if retry and attempts <= max_retries
MayRetry(retry_flag, attempts_made, limit) == retry_flag /\ attempts_made <= limit

\* line 117: the statuses that are tried again
RetriedStatus(status) == status \in {429, 503}

\* lines 101-134: what one pass of the loop body does with the outcome of
\* its request, attempts_made being the counter after line 99
FetchPass(outcome, retry_flag, attempts_made, limit) ==
    IF outcome.kind = "exception"
    THEN IF MayRetry(retry_flag, attempts_made, limit) THEN "continue" ELSE "RuntimeError"
    ELSE IF outcome.status_code = 200 THEN "return"
    ELSE IF MayRetry(retry_flag, attempts_made, limit) /\ RetriedStatus(outcome.status_code)
    THEN "continue"
    ELSE "RuntimeError"

\* a call of fetch_fullstats at the head of its loop
InitFetch ==
    /\ AdvIdle
    /\ CRIdle
    /\ ValIdle
    /\ LogIdle
    /\ StepIdle
    /\ BatchIdle
    /\ PayloadIdle
    /\ AggIdle
    /\ NormIdle
    /\ retry \in BOOLEAN
    /\ max_retries \in 0 .. MaxRetries
    /\ attempts = 0
    /\ retries = 3
    /\ attempt = 0
    /\ http_pc = "loop"
    /\ http_log = <<>>
    /\ http_result = None

\* lines 98-134: one pass of the while loop, with its request
FetchRequest ==
    /\ http_pc = "loop"
    /\ attempts' = attempts + 1
    /\ \E outcome \in HttpOutcomes :
           LET pass == FetchPass(outcome, retry, attempts', max_retries)
           IN  /\ http_log' = Append(http_log, outcome)
               /\ http_pc' = CASE pass = "continue" -> "loop"
                               [] pass = "return" -> "returned"
                               [] OTHER -> "raised"
               /\ http_result' =
                      CASE pass = "continue" -> None
                        [] pass = "return" -> Some([body_of |-> Len(http_log')])
                        [] OTHER -> Some([error |-> "RuntimeError"])
    /\ UNCHANGED <<retry, max_retries, retries, attempt>>
    /\ UNCHANGED <<adv_vars, cr_vars, val_vars, log_vars, step_vars>>
    /\ UNCHANGED <<batch_vars, period_begin, agg_vars, norm_vars>>

NextFetch == FetchRequest

\* the loop is sequential code: a pass that can be made is made
SpecFetch == InitFetch /\ [][NextFetch]_vars /\ WF_vars(NextFetch)

(***************************************************************************)
(* API client of the CR report: wb_api/cr_daily_stats/cr_daily_stats.py,   *)
(* post_with_retries.  A Retry-After header, when present, holds a number  *)
(* of seconds time.sleep accepts; the waits leave the state as it is.      *)
(***************************************************************************)

\* line 93: the statuses that are tried again
RetryableStatus(status) == status \in {429, 500, 502, 503, 504}

\* faulty variant: a retryable status is tried again once more
StatusRetriedOnceMore(status, attempt_made, limit) ==
    RetryableStatus(status) /\ attempt_made <= limit

\* line 93: if resp.status_code in (...) and attempt < retries
StatusRetried(status, attempt_made, limit) ==
    RetryableStatus(status) /\ attempt_made < limit

\* lines 82-104: what one pass of the loop body does with the outcome of its
\* request: how it leaves the pass and the value of attempt after it
PostPass(outcome, attempt_made, limit) ==
    IF outcome.kind = "exception"
    THEN [exit |-> IF attempt_made + 1 > limit THEN "raise" ELSE "continue",
          attempt |-> attempt_made + 1]
    ELSE IF outcome.status_code = 200
    THEN [exit |-> "return", attempt |-> attempt_made]
    ELSE IF StatusRetried(outcome.status_code, attempt_made, limit)
    THEN [exit |-> "continue", attempt |-> attempt_made + 1]
    ELSE [exit |-> "return", attempt |-> attempt_made]

\* a call of post_with_retries at the head of its loop
InitPost ==
    /\ AdvIdle
    /\ CRIdle
    /\ ValIdle
    /\ LogIdle
    /\ StepIdle
    /\ BatchIdle
    /\ PayloadIdle
    /\ AggIdle
    /\ NormIdle
    /\ retry = TRUE
    /\ max_retries = 2
    /\ attempts = 0
    /\ retries \in 0 .. MaxPostRetries
    /\ attempt = 0
    /\ http_pc = "loop"
    /\ http_log = <<>>
    /\ http_result = None

\* lines 81-104: one pass of the while loop, with its request
PostRequest ==
    /\ http_pc = "loop"
    /\ \E outcome \in HttpOutcomes :
           LET pass == PostPass(outcome, attempt, retries)
           IN  /\ http_log' = Append(http_log, outcome)
               /\ attempt' = pass.attempt
               /\ http_pc' = CASE pass.exit = "continue" -> "loop"
                               [] pass.exit = "return" -> "returned"
                               [] OTHER -> "raised"
               /\ http_result' =
                      CASE pass.exit = "continue" -> None
                        [] pass.exit = "return" -> Some([resp |-> outcome])
                        [] OTHER -> Some([error |-> "RequestException"])
    /\ UNCHANGED <<retry, max_retries, attempts, retries>>
    /\ UNCHANGED <<adv_vars, cr_vars, val_vars, log_vars, step_vars>>
    /\ UNCHANGED <<batch_vars, period_begin, agg_vars, norm_vars>>

NextPost == PostRequest

\* the loop is sequential code: a pass that can be made is made
SpecPost == InitPost /\ [][NextPost]_vars /\ WF_vars(NextPost)

(***************************************************************************)
(* Batch fan-out: wb_api/adv_params_api/fullstats.py, fetch_fullstats_batch *)
(* A fetch of a batch returns a list of campaigns (one per id, or none) or  *)
(* raises, as fetch_fullstats does.                                         *)
(***************************************************************************)

\* line 169: campaign_ids[i:i+batch_size]
Slice(list, i, size) ==
    [k \in 1 .. (IF i + size <= Len(list) THEN size ELSE Len(list) - i) |-> list[i + k]]

\* faulty variant: the wait is also made when the batch ends the list
MoreBatchesOrEnd(i, size, n) == i + size <= n

\* line 184: if i + batch_size < len(campaign_ids)
MoreBatches(i, size, n) == i + size < n

\* what the API may return for a batch: a campaign per id, or nothing
BatchData(batch_ids) ==
    {[k \in 1 .. Len(batch_ids) |-> [advertId |-> batch_ids[k]]], <<>>}

FetchEvent(batch_ids, raised, data) ==
    [kind |-> "fetch", ids |-> batch_ids, raised |-> raised, data |-> data]

SleepEvent == [kind |-> "sleep", ids |-> <<>>, raised |-> FALSE, data |-> <<>>]

\* a call with any list of ids and any batch size
InitBatch ==
    /\ AdvIdle
    /\ CRIdle
    /\ ValIdle
    /\ LogIdle
    /\ StepIdle
    /\ HttpIdle
    /\ PayloadIdle
    /\ AggIdle
    /\ NormIdle
    /\ \E n \in 0 .. MaxIds : campaign_ids = [k \in 1 .. n |-> 10 + k]
    /\ batch_size \in (1 .. MaxBatchSize) \cup {101}
    /\ batch_i = 0
    /\ all_data = <<>>
    /\ batch_pc = "start"
    /\ batch_events = <<>>
    /\ batch_return = None

\* lines 162-166: the check of batch_size, all_data = []
BatchStart ==
    /\ batch_pc = "start"
    /\ batch_pc' = IF batch_size > 100 THEN "raised" ELSE "loop"
    /\ all_data' = <<>>
    /\ batch_i' = 0
    /\ UNCHANGED <<campaign_ids, batch_size, batch_events, batch_return>>
    /\ UNCHANGED <<adv_vars, cr_vars, val_vars, log_vars, step_vars, http_vars, period_begin>>
    /\ UNCHANGED <<agg_vars, norm_vars>>

\* lines 168-186: one pass of the for loop: the fetch of the batch, whose
\* exception leaves the function, and the wait before the next batch
BatchIteration ==
    /\ batch_pc = "loop"
    /\ batch_i < Len(campaign_ids)
    /\ LET batch_ids == Slice(campaign_ids, batch_i, batch_size)
       IN  \/ /\ batch_events' = Append(batch_events, FetchEvent(batch_ids, TRUE, <<>>))
              /\ batch_pc' = "raised"
              /\ UNCHANGED <<all_data, batch_i>>
           \/ \E batch_data \in BatchData(batch_ids) :
                 /\ all_data' = all_data \o batch_data
                 /\ batch_events' =
                        IF MoreBatches(batch_i, batch_size, Len(campaign_ids))
                        THEN batch_events \o <<FetchEvent(batch_ids, FALSE, batch_data), SleepEvent>>
                        ELSE Append(batch_events, FetchEvent(batch_ids, FALSE, batch_data))
                 /\ batch_i' = batch_i + batch_size
                 /\ batch_pc' = "loop"
    /\ UNCHANGED <<campaign_ids, batch_size, batch_return>>
    /\ UNCHANGED <<adv_vars, cr_vars, val_vars, log_vars, step_vars, http_vars, period_begin>>
    /\ UNCHANGED <<agg_vars, norm_vars>>

\* line 188: return all_data, once range() is exhausted
BatchReturn ==
    /\ batch_pc = "loop"
    /\ batch_i >= Len(campaign_ids)
    /\ batch_return' = Some(all_data)
    /\ batch_pc' = "returned"
    /\ UNCHANGED <<campaign_ids, batch_size, batch_i, all_data, batch_events>>
    /\ UNCHANGED <<adv_vars, cr_vars, val_vars, log_vars, step_vars, http_vars, period_begin>>
    /\ UNCHANGED <<agg_vars, norm_vars>>

NextBatch == BatchStart \/ BatchIteration \/ BatchReturn

SpecBatch == InitBatch /\ [][NextBatch]_vars

(***************************************************************************)
(* Properties of the fullstats transformer.                                *)
(***************************************************************************)

\* the last call was made on fullstats_response, so result is its output
Returned == calls # <<>> /\ calls[Len(calls)] = "same"

\* the single day entry of a DayResponses input
TheDay == fullstats_response[1].days[1]

\* all article entries of a day, platform after platform
RECURSIVE EntriesOf(_)
EntriesOf(apps) == IF apps = <<>> THEN <<>> ELSE Head(apps).nms \o EntriesOf(Tail(apps))

RECURSIVE SumField(_, _, _)
SumField(entries, n, f) ==
    IF entries = <<>> THEN 0
    ELSE (IF Head(entries).nmId = n THEN Head(entries)[f] ELSE 0) + SumField(Tail(entries), n, f)

ArticlesOf(apps) ==
    {EntriesOf(apps)[i].nmId : i \in 1 .. Len(EntriesOf(apps))} \ {0}

RecordsOf(list, n) == {i \in 1 .. Len(list) : list[i].nm_id = n}

\* C1: no two records returned by one call share (advert_id, nm_id, date):
\* check_for_duplicates on the returned list is empty.
C1_UniqueKeys == Returned => check_for_duplicates(result) = <<>>

\* C4: in every emitted record cpc is present iff clicks > 0, ctr and cpm are
\* present iff views > 0.
C4_MetricPresence ==
    Returned =>
        \A i \in 1 .. Len(result) :
            /\ (result[i].cpc # None) <=> (result[i].clicks > 0)
            /\ (result[i].ctr # None) <=> (result[i].views > 0)
            /\ (result[i].cpm # None) <=> (result[i].views > 0)

\* a record with no views and some clicks: cpc decided by clicks alone
C4_Witness ==
    /\ Returned
    /\ \E i \in 1 .. Len(result) :
           /\ result[i].views = 0 /\ result[i].clicks > 0
           /\ result[i].cpc # None /\ result[i].ctr = None /\ result[i].cpm = None
    /\ \E i \in 1 .. Len(result) :
           /\ result[i].views > 0 /\ result[i].clicks = 0
           /\ result[i].cpc = None /\ result[i].ctr # None /\ result[i].cpm # None

\* C5: every emitted record has clicks <= views and no negative counter.
C5_CountersSane ==
    Returned =>
        \A i \in 1 .. Len(result) :
            /\ result[i].clicks <= result[i].views
            /\ result[i].views >= 0 /\ result[i].clicks >= 0 /\ result[i].sum >= 0
            /\ result[i].orders >= 0 /\ result[i].orders_sum >= 0

\* C6: an article with a vendor code whose summed views are threshold - 1 gets
\* no record, one whose summed views are the threshold gets exactly one.
C6_ThresholdFilter ==
    Returned =>
        \A n \in ArticlesOf(TheDay.apps) :
            LET v == SumField(EntriesOf(TheDay.apps), n, "views")
            IN  ~NoVendorCode(DictGet(vendor_code_map, n)) =>
                    /\ v = min_views_threshold - 1 => RecordsOf(result, n) = {}
                    /\ v = min_views_threshold => Cardinality(RecordsOf(result, n)) = 1

\* one article exactly at a positive threshold by views summed over two
\* platforms and kept, another one just below it and dropped
C6_Witness ==
    /\ Returned
    /\ min_views_threshold = 2
    /\ Len(TheDay.apps) = 2
    /\ \E n \in ArticlesOf(TheDay.apps) :
           /\ ~NoVendorCode(DictGet(vendor_code_map, n))
           /\ SumField(TheDay.apps[1].nms, n, "views") = 1
           /\ SumField(TheDay.apps[2].nms, n, "views") = 1
           /\ Cardinality(RecordsOf(result, n)) = 1

\* the response with every entry of article n taken out of every platform block
WithoutArticle(response, n) ==
    [c \in 1 .. Len(response) |->
        [response[c] EXCEPT !.days =
            [d \in 1 .. Len(@) |->
                [@[d] EXCEPT !.apps =
                    [a \in 1 .. Len(@) |->
                        [nms |-> LET Keep(e) == e.nmId # n
                                 IN  SelectSeq(@[a].nms, Keep)]]]]]]

\* C7: an article with no, or an empty, vendor code gets no record and the
\* output is the output for the input without that article's entries; every
\* emitted vendor_code is the non-empty vendor_code_map[nm_id].
C7_LookupMiss ==
    Returned =>
        /\ \A n \in NmIds \ {0} :
               NoVendorCode(DictGet(vendor_code_map, n)) =>
                   /\ RecordsOf(result, n) = {}
                   /\ result = transform_fullstats_to_campaign_daily(
                                   WithoutArticle(fullstats_response, n),
                                   vendor_code_map, min_views_threshold)
        /\ \A i \in 1 .. Len(result) :
               /\ result[i].nm_id \in DOMAIN vendor_code_map
               /\ result[i].vendor_code = vendor_code_map[result[i].nm_id]
               /\ result[i].vendor_code # ""

\* an article with an empty vendor code passes the threshold, is dropped, and
\* the article after it is still emitted
C7_Witness ==
    /\ Returned
    /\ 2 \in DOMAIN vendor_code_map /\ vendor_code_map[2] = ""
    /\ Len(EntriesOf(TheDay.apps)) = 2
    /\ EntriesOf(TheDay.apps)[1].nmId = 2
    /\ EntriesOf(TheDay.apps)[1].views >= min_views_threshold
    /\ Len(result) = 1 /\ result[1].nm_id = 1

\* the per-article totals of an aggregation, as a dict compares them
Totals(nm_metrics) ==
    {[nm_id |-> nm_metrics[i].nm_id, views |-> nm_metrics[i].views,
      clicks |-> nm_metrics[i].clicks, sum |-> nm_metrics[i].sum] :
        i \in 1 .. Len(nm_metrics)}

\* the platform block that holds the i-th entry of the day
RECURSIVE BlockOf(_, _, _)
BlockOf(apps, i, b) ==
    IF i <= Len(apps[b].nms) THEN b ELSE BlockOf(apps, i - Len(apps[b].nms), b + 1)

\* the reorderings of the day's entries that keep every entry in its platform
InnerPermutations(apps) ==
    LET n == Len(EntriesOf(apps))
        block == [i \in 1 .. n |-> BlockOf(apps, i, 1)]
    IN  {p \in Permutations(1 .. n) : \A i \in 1 .. n : block[p[i]] = block[i]}

\* apps with its entries reordered by p inside the platforms
ShuffledInside(apps, p) ==
    LET entries == EntriesOf(apps)
        sizes == [b \in 1 .. Len(apps) |-> Len(apps[b].nms)]
    IN  SplitApps([i \in 1 .. Len(entries) |-> entries[p[i]]], sizes)

\* apps with its platforms reordered by q
ShuffledPlatforms(apps, q) == [b \in 1 .. Len(apps) |-> apps[q[b]]]

\* C8: the aggregator returns the same per-article totals for every
\* permutation of the platform list and of the entries inside each platform.
C8_OrderIndependent ==
    Returned =>
        LET totals == Totals(_aggregate_nm_metrics_by_platforms(TheDay.apps))
            orders == Permutations(1 .. Len(TheDay.apps))
        IN  \A p \in InnerPermutations(TheDay.apps) :
                LET inner == ShuffledInside(TheDay.apps, p)
                IN  \A q \in orders :
                        Totals(_aggregate_nm_metrics_by_platforms(ShuffledPlatforms(inner, q)))
                            = totals

\* two platforms report the same article with different metrics, and the
\* aggregation has run
C8_Witness ==
    /\ Returned
    /\ Len(TheDay.apps) = 2
    /\ Len(TheDay.apps[1].nms) = 1 /\ Len(TheDay.apps[2].nms) = 1
    /\ TheDay.apps[1].nms[1].nmId = 1 /\ TheDay.apps[2].nms[1].nmId = 1
    /\ TheDay.apps[1].nms[1].views # TheDay.apps[2].nms[1].views
    /\ ShuffledPlatforms(TheDay.apps, <<2, 1>>) # TheDay.apps
    /\ Len(result) = 1

WithApps(response, apps) == [response EXCEPT ![1].days[1].apps = apps]

\* other platform contents for the same day
AltApps ==
    {<<>>,
     <<[nms |-> <<NmEntry(1, [views |-> 1, clicks |-> 1, sum |-> 2000])>>]>>,
     <<[nms |-> <<NmEntry(2, [views |-> 1, clicks |-> 0, sum |-> 0]),
                  NmEntry(1, [views |-> 0, clicks |-> 1, sum |-> 1])>>]>>}

\* C10: orders and orders_sum of every record are the day entry's own orders
\* and sum_price, equal over the articles of the day, whatever the platform
\* and article blocks hold.
C10_DayLevelOrders ==
    Returned =>
        /\ \A i \in 1 .. Len(result) :
               /\ result[i].orders = TheDay.orders
               /\ result[i].orders_sum = TheDay.sum_price
        /\ \A a \in AltApps :
               LET other == transform_fullstats_to_campaign_daily(
                                WithApps(fullstats_response, a), vendor_code_map,
                                min_views_threshold)
               IN  \A i \in 1 .. Len(other) :
                       /\ other[i].orders = TheDay.orders
                       /\ other[i].orders_sum = TheDay.sum_price

\* two articles of one day, with different metrics, carry the day's orders
C10_Witness ==
    /\ Returned
    /\ Len(result) = 2
    /\ result[1].nm_id # result[2].nm_id
    /\ result[1].clicks # result[2].clicks
    /\ result[1].orders = 5 /\ result[2].orders = 5
    /\ result[1].orders_sum = 25000 /\ result[2].orders_sum = 25000

(***************************************************************************)
(* Properties of the CR snapshot builder and of the CR pipeline.           *)
(***************************************************************************)

\* C2: no previousPeriod record holds stocks_mp or stocks_wb, and every
\* selectedPeriod record holds both, whatever the card's stocks block is.
C2_StockKeys ==
    cr_pc = "extracted" =>
        /\ \A i \in 1 .. Len(records_yesterday) :
               {"stocks_mp", "stocks_wb"} \cap DOMAIN records_yesterday[i] = {}
        /\ \A i \in 1 .. Len(records_today) :
               {"stocks_mp", "stocks_wb"} \subseteq DOMAIN records_today[i]

StockColumns(row) == <<row.stocks_mp, row.stocks_wb>>

\* C3: a run leaves the stocks of every row of an earlier business day as
\* they are, so row (article, D) keeps through day D + 1 the stocks the last
\* run of day D left in it.
C3_StocksKept ==
    [][\A key \in DOMAIN cr_daily_stats :
           key[2] < today' =>
               /\ key \in DOMAIN cr_daily_stats'
               /\ StockColumns(cr_daily_stats'[key]) = StockColumns(cr_daily_stats[key])]_vars

\* a row written with stocks on its own day, written again the day after by a
\* run whose card held other stocks
C3_Witness ==
    \E key \in DOMAIN cr_daily_stats :
        /\ today = key[2] + 1
        /\ cr_daily_stats[key].created_at = key[2]
        /\ cr_daily_stats[key].updated_at = today
        /\ cr_daily_stats[key].stocks_mp # None
        /\ <<key[1], today>> \in DOMAIN cr_daily_stats
        /\ cr_daily_stats[<<key[1], today>>].stocks_mp # cr_daily_stats[key].stocks_mp

(***************************************************************************)
(* Properties of the summed totals and of the metrics derived from them.   *)
(***************************************************************************)

\* q is n / d rounded to the nearest unit (either way at a tie)
IsRounded(q, n, d) ==
    /\ 2 * (q * d - n) <= d
    /\ 2 * (n - q * d) <= d

\* C11: views, clicks and sum of every record are the sums over all entries of
\* the article in all platform blocks of the day, and cpc = sum / clicks,
\* ctr = clicks / views * 100, cpm = sum / views * 1000, to 2 decimals, are
\* taken from those sums; orders and orders_sum are the day's.
C11_SummedTotals ==
    Returned =>
        \A i \in 1 .. Len(result) :
            LET r == result[i]
                entries == EntriesOf(TheDay.apps)
                views == SumField(entries, r.nm_id, "views")
                clicks == SumField(entries, r.nm_id, "clicks")
                total == SumField(entries, r.nm_id, "sum")
            IN  /\ r.views = views
                /\ r.clicks = clicks
                /\ r.sum = total
                /\ clicks > 0 => r.cpc # None /\ IsRounded(r.cpc[1], total, clicks)
                /\ views > 0 => /\ r.ctr # None /\ IsRounded(r.ctr[1], clicks * 10000, views)
                                /\ r.cpm # None /\ IsRounded(r.cpm[1], total * 1000, views)
                /\ r.orders = TheDay.orders
                /\ r.orders_sum = TheDay.sum_price

\* the documented scenario: {10, 2, 20.00} and {0, 0, 0.00} on two platforms,
\* day-level orders 5 and 250.00
C11_Witness ==
    /\ Returned
    /\ TheDay.apps = <<[nms |-> <<NmEntry(1, [views |-> 10, clicks |-> 2, sum |-> 2000])>>],
                       [nms |-> <<NmEntry(1, [views |-> 0, clicks |-> 0, sum |-> 0])>>]>>
    /\ TheDay.orders = 5
    /\ TheDay.sum_price = 25000
    /\ Len(result) = 1
    /\ result[1].views = 10 /\ result[1].clicks = 2 /\ result[1].sum = 2000
    /\ result[1].cpc = Some(1000) /\ result[1].ctr = Some(2000)
    /\ result[1].cpm = Some(200000)
    /\ result[1].orders = 5 /\ result[1].orders_sum = 25000

(***************************************************************************)
(* Properties of the two lists of the CR snapshot builder.                 *)
(***************************************************************************)

\* the cards that carry an article id and a vendor code
Identified(card) == card.nmID # 0 /\ card.vendorCode # ""

WithSelected(card) == Identified(card) /\ card.selectedPeriod # None

WithPrevious(card) == Identified(card) /\ card.previousPeriod # None

\* one record per card of cards, in their order, dated date
OnePerCard(records, cards, date) ==
    /\ Len(records) = Len(cards)
    /\ \A i \in 1 .. Len(records) :
           /\ records[i].nm_id = cards[i].nmID
           /\ records[i].vendor_code = cards[i].vendorCode
           /\ records[i].date_of_period = date

C13_UniqueSnapshotKeys ==
    cr_pc = "extracted" =>
        LET all_records == records_today \o records_yesterday
        IN  \A i, j \in 1 .. Len(all_records) :
                (/\ all_records[i].nm_id = all_records[j].nm_id
                 /\ all_records[i].date_of_period = all_records[j].date_of_period) => i = j

\* the period block the single record of records_today was built from
ThePeriod == api_response.cards[1].selectedPeriod[1]

RejectedPositions ==
    {i \in 1 .. Len(stats_list) : validate_campaign_daily_stats(stats_list[i]) # None}

\* C15: in collect-all mode the batch validator does not raise and returns a
\* report with total = len(records), valid_count + invalid_count = total,
\* len(errors) = invalid_count = the number of records the field validator
\* rejects, and valid iff invalid_count = 0.
C15_CollectAllReport ==
    (batch_result # None /\ ~raise_on_error) =>
        /\ ~batch_result[1].raised
        /\ batch_result[1].report # None
        /\ LET report == batch_result[1].report[1]
           IN  /\ report.total = Len(stats_list)
               /\ report.valid_count + report.invalid_count = report.total
               /\ Len(report.errors) = report.invalid_count
               /\ report.invalid_count = Cardinality(RejectedPositions)
               /\ report.valid <=> report.invalid_count = 0

\* a batch with one valid and two invalid records, collected
C15_Witness ==
    /\ batch_result # None
    /\ ~raise_on_error
    /\ Len(stats_list) = 3
    /\ batch_result[1].report # None
    /\ batch_result[1].report[1].valid_count = 1
    /\ batch_result[1].report[1].invalid_count = 2
    /\ ~batch_result[1].report[1].valid

\* C16: in fail-fast mode the batch validator raises iff some record is
\* invalid; the error names the position of the first invalid record, no
\* record after it is examined, and a batch of valid records gives a report
\* with valid = true.
C16_FailFast ==
    (batch_result # None /\ raise_on_error) =>
        LET outcome == batch_result[1]
        IN  /\ outcome.raised <=> RejectedPositions # {}
            /\ outcome.raised =>
                   /\ outcome.message[1].record \in RejectedPositions
                   /\ \A i \in RejectedPositions : outcome.message[1].record <= i
                   /\ outcome.examined = outcome.message[1].record
            /\ ~outcome.raised => outcome.report # None /\ outcome.report[1].valid

\* a valid record, then an invalid one, then one more that is never looked at
C16_Witness ==
    /\ batch_result # None
    /\ raise_on_error
    /\ Len(stats_list) = 3
    /\ RejectedPositions = {2, 3}
    /\ batch_result[1].raised
    /\ batch_result[1].message[1].record = 2
    /\ batch_result[1].examined = 2

\* the per-record invariants of the data model
Counters(stats) == <<stats.views, stats.clicks, stats.sum, stats.orders, stats.orders_sum>>

PresentIff(metric, denominator) == metric # None <=> denominator > 0

ViolatesDataModel(stats) ==
    \/ \E k \in 1 .. 5 : Counters(stats)[k] < 0
    \/ stats.clicks > stats.views
    \/ stats.vendor_code = ""
    \/ Strip(stats.vendor_code) = ""
    \/ ~PresentIff(stats.cpc, stats.clicks)
    \/ ~PresentIff(stats.ctr, stats.views)
    \/ ~PresentIff(stats.cpm, stats.views)
    \/ (stats.ctr # None /\ (stats.ctr[1] < 0 \/ stats.ctr[1] > 10000))

\* C17: the field validator rejects a record iff it breaks an invariant of the
\* data model: the records a collected batch reports are exactly those.
C17_EnforcesInvariants ==
    (batch_result # None /\ ~raise_on_error) =>
        {batch_result[1].report[1].errors[k].record :
            k \in 1 .. Len(batch_result[1].report[1].errors)}
        = {i \in 1 .. Len(stats_list) : ViolatesDataModel(stats_list[i])}

\* the positions whose key occurred at an earlier position
RepeatPositions ==
    {i \in 1 .. Len(stats_list) :
        \E j \in 1 .. i - 1 : StatsKey(stats_list[j]) = StatsKey(stats_list[i])}

\* C18: check_for_duplicates returns one diagnostic for every record whose key
\* occurred earlier in the list, in list order, so as many as the list is
\* longer than its set of keys, and leaves the list as it was.
C18_OnePerRepeat ==
    duplicates # None =>
        /\ Len(duplicates[1]) = Cardinality(RepeatPositions)
        /\ Len(duplicates[1]) =
               Len(stats_list) - Cardinality({StatsKey(stats_list[i]) : i \in 1 .. Len(stats_list)})
        /\ \A k \in 1 .. Len(duplicates[1]) :
               \E i \in RepeatPositions :
                   /\ Cardinality({j \in RepeatPositions : j <= i}) = k
                   /\ duplicates[1][k] = DuplicateMessage(stats_list[i])
        /\ stats_list = given_stats

\* key A, key B, key A again: one diagnostic, for the third record
C18_Witness ==
    /\ duplicates # None
    /\ Len(stats_list) = 3
    /\ RepeatPositions = {3}
    /\ StatsKey(stats_list[1]) = StatsKey(stats_list[3])
    /\ StatsKey(stats_list[2]) # StatsKey(stats_list[1])
    /\ duplicates[1] = <<DuplicateMessage(stats_list[3])>>

(***************************************************************************)
(* Properties of the two pipelines.                                        *)
(***************************************************************************)

\* C19: a batch handed to upsert_campaign_daily_stats has passed field
\* validation and duplicate detection: it holds no invalid record and no
\* repeated key.
C19_ValidatedBeforeLoad ==
    (adv_log # None /\ adv_log[1].upserted # None) =>
        /\ validate_campaign_daily_stats_batch(adv_log[1].upserted[1], FALSE).report[1].valid
        /\ check_for_duplicates(adv_log[1].upserted[1]) = <<>>

\* C20: a run whose raw response fails structural validation transforms
\* nothing and issues no upsert, in the adv pipeline and in the CR pipeline.
C20_StructuralErrorAborts ==
    /\ (adv_log # None /\ ~adv_log[1].structure_ok) =>
           adv_log[1].transformed = None /\ adv_log[1].upserted = None
    /\ (cr_log # None /\ ~cr_log[1].structure_ok) =>
           ~cr_log[1].extracted /\ cr_log[1].upserts = 0

(***************************************************************************)
(* Properties of the entries the transformer skips.                        *)
(***************************************************************************)

\* the platform blocks without the entries that carry no article id
WithoutIdlessEntries(apps) ==
    [a \in 1 .. Len(apps) |->
        [nms |-> LET HasId(e) == e.nmId # 0 IN SelectSeq(apps[a].nms, HasId)]]

\* the days without those that carry no date, each without its idless entries
WithoutDatelessDays(days) ==
    LET HasDate(day) == day.date # None
        dated == SelectSeq(days, HasDate)
    IN  [d \in 1 .. Len(dated) |->
            [dated[d] EXCEPT !.apps = WithoutIdlessEntries(@)]]

\* the response with every skippable entry removed
WithoutSkippable(response) ==
    LET HasIdAndDays(campaign) == campaign.advertId # 0 /\ campaign.days # <<>>
        kept == SelectSeq(response, HasIdAndDays)
    IN  [c \in 1 .. Len(kept) |->
            [kept[c] EXCEPT !.days = WithoutDatelessDays(@)]]

\* C21: a campaign without advertId, a campaign with no day entries, a day
\* entry without a date and an article entry with a null or zero nmId are
\* skipped: the call returns, and returns what it returns for the input with
\* those entries removed.
C21_SkippedEntries ==
    Returned =>
        /\ result = transform_fullstats_to_campaign_daily(
                        WithoutSkippable(fullstats_response), vendor_code_map,
                        min_views_threshold)
        /\ \A i \in 1 .. Len(result) : result[i].advert_id # 0 /\ result[i].nm_id # 0

\* a campaign without an id and without days, then a campaign whose first
\* day has no date and whose second day holds an idless entry beside article 2
C21_Witness ==
    /\ Returned
    /\ Len(fullstats_response) = 2
    /\ fullstats_response[1].advertId = 0
    /\ Len(fullstats_response[1].days) = 0
    /\ fullstats_response[2].advertId = 1
    /\ Len(fullstats_response[2].days) = 2
    /\ fullstats_response[2].days[1].date = None
    /\ fullstats_response[2].days[1].apps # <<>>
    /\ fullstats_response[2].days[2].date # None
    /\ Len(fullstats_response[2].days[2].apps) = 2
    /\ Len(result) = 1
    /\ result[1].nm_id = 2 /\ result[1].views = 2

(***************************************************************************)
(* Properties of the aggregation step of adv main.                         *)
(***************************************************************************)

Aggregations == {"trigger_adv_params_aggregation", "insert_adv_params_direct"}

\* the positions of adv_calls that are calls of an aggregation strategy
AggregationCalls == {i \in 1 .. Len(adv_calls) : adv_calls[i].fn \in Aggregations}

\* step 7 is over
AggregationOver == adv_pc \in {"step8", "done"}

\* C22: an aggregation strategy is called only after the upsert into
\* adv_campaign_daily_stats returned; with use_rpc_aggregation the RPC
\* strategy comes first and the in-process one follows iff the RPC raised;
\* without it only the in-process strategy is called; the run goes on to
\* step 8 also when every strategy tried has raised.
C22_AggregationOrder ==
    /\ \A i \in AggregationCalls :
           /\ adv_calls[1] = Call("upsert_campaign_daily_stats", FALSE)
           /\ i > 1
    /\ adv_pc = "exit" => AggregationCalls = {}
    /\ AggregationOver =>
           /\ Len(adv_calls) >= 2
           /\ adv_calls[2].fn = FirstStrategy(use_rpc_aggregation)
           /\ use_rpc_aggregation =>
                  /\ adv_calls[2].fn = "trigger_adv_params_aggregation"
                  /\ Len(adv_calls) = 3 <=> adv_calls[2].raised
                  /\ Len(adv_calls) = 3 => adv_calls[3].fn = "insert_adv_params_direct"
           /\ ~use_rpc_aggregation =>
                  /\ adv_calls[2].fn = "insert_adv_params_direct"
                  /\ Len(adv_calls) = 2
           /\ Len(adv_calls) <= 3

\* the RPC raised, the in-process strategy raised too, and main reached its end
C22_Witness ==
    /\ use_rpc_aggregation
    /\ adv_pc = "done"
    /\ adv_calls = <<Call("upsert_campaign_daily_stats", FALSE),
                     Call("trigger_adv_params_aggregation", TRUE),
                     Call("insert_adv_params_direct", TRUE)>>

(***************************************************************************)
(* Properties of the request loops of the API clients.                     *)
(***************************************************************************)

HttpOver == http_pc \in {"returned", "raised"}

LastOutcome == http_log[Len(http_log)]

\* what has to hold while fetch_fullstats runs and when it is over
FetchBounded ==
    /\ Len(http_log) <= max_retries + 1
    /\ ~retry => Len(http_log) <= 1
    /\ (HttpOver /\ ~retry) => Len(http_log) = 1
    /\ \A i \in 1 .. Len(http_log) - 1 :
           /\ retry /\ i <= max_retries
           /\ \/ http_log[i] = TransportException
              \/ http_log[i].status_code \in {429, 503}
    /\ http_pc = "returned" =>
           /\ LastOutcome = Response(200)
           /\ http_result = Some([body_of |-> Len(http_log)])
    /\ http_pc = "raised" =>
           /\ http_result = Some([error |-> "RuntimeError"])
           /\ LastOutcome # Response(200)
    /\ (http_log # <<>> /\ LastOutcome.kind = "response"
           /\ LastOutcome.status_code \notin {200, 429, 503}) => http_pc = "raised"
    /\ (http_log # <<>> /\ LastOutcome = Response(200)) => http_pc = "returned"
    /\ http_pc = "loop" => (http_log = <<>> \/ (retry /\ Len(http_log) <= max_retries))

PostBounded ==
    /\ Len(http_log) <= retries + 1
    /\ attempt <= retries + 1
    /\ \A i \in 1 .. Len(http_log) - 1 :
           \/ http_log[i] = TransportException
           \/ RetryableStatus(http_log[i].status_code)
    /\ http_pc = "loop" => attempt = Len(http_log) /\ attempt <= retries
    /\ http_pc = "returned" =>
           /\ LastOutcome.kind = "response"
           /\ http_result = Some([resp |-> LastOutcome])
           /\ \/ LastOutcome.status_code = 200
              \/ ~RetryableStatus(LastOutcome.status_code)
              \/ Len(http_log) = retries + 1
    /\ http_pc = "raised" =>
           /\ LastOutcome = TransportException
           /\ http_result = Some([error |-> "RequestException"])
           /\ attempt = retries + 1
           /\ Len(http_log) = retries + 1
    /\ (http_log # <<>> /\ LastOutcome.kind = "response"
           /\ ~RetryableStatus(LastOutcome.status_code)) => http_pc = "returned"

\* C24: post_with_retries issues at most retries + 1 requests whatever mix of
\* transport exceptions and retryable statuses it meets, and ends: it returns
\* the first 200 response, returns the last response as it is when its
\* status is not retryable or the retries are used up, and re-raises the
\* transport exception once the attempt counter exceeds retries.
C24_PostTerminates == []PostBounded /\ <>HttpOver

\* an exception, a 500 and an exception use up the counter; the 429 that
\* follows is returned as it is
C24_Witness ==
    /\ retries = 3
    /\ http_log = <<TransportException, Response(500), TransportException, Response(429)>>
    /\ http_pc = "returned"
    /\ http_result = Some([resp |-> Response(429)])

(***************************************************************************)
(* Properties of the batch fan-out.                                        *)
(***************************************************************************)

IsFetch(e) == e.kind = "fetch"

\* the fetches made so far, in order
Fetches == SelectSeq(batch_events, IsFetch)

RECURSIVE ConcatIds(_)
ConcatIds(fetches) == IF fetches = <<>> THEN <<>> ELSE Head(fetches).ids \o ConcatIds(Tail(fetches))

RECURSIVE ConcatData(_)
ConcatData(fetches) ==
    IF fetches = <<>> THEN <<>> ELSE Head(fetches).data \o ConcatData(Tail(fetches))

\* ceil(n / size)
CeilDiv(n, size) == (n + size - 1) \div size

\* C25: for batch_size in 1..100 the batches requested are consecutive slices
\* of the id list, none longer than batch_size, ceil(n / batch_size) of them
\* when the call returns, covering every id once; the list returned is the
\* batch results in batch order; a wait follows every batch but the last; a
\* batch that raises is the last thing done and nothing is returned.
C25_BatchFanOut ==
    batch_size <= 100 =>
        LET n == Len(campaign_ids)
            ids_so_far == ConcatIds(Fetches)
        IN  /\ Len(ids_so_far) <= n
            /\ \A k \in 1 .. Len(ids_so_far) : ids_so_far[k] = campaign_ids[k]
            /\ Len(Fetches) <= CeilDiv(n, batch_size)
            /\ \A k \in 1 .. Len(Fetches) :
                   /\ Len(Fetches[k].ids) >= 1
                   /\ Len(Fetches[k].ids) <= batch_size
                   /\ k < Len(Fetches) => Len(Fetches[k].ids) = batch_size /\ ~Fetches[k].raised
            /\ \A j \in 1 .. Len(batch_events) :
                   /\ batch_events[j].kind = (IF j % 2 = 1 THEN "fetch" ELSE "sleep")
                   /\ batch_events[j].kind = "sleep" => (j \div 2) < CeilDiv(n, batch_size)
            /\ batch_pc \in {"loop", "returned"} =>
                   (Len(ids_so_far) < n => Len(batch_events) = 2 * Len(Fetches))
            /\ batch_pc = "returned" =>
                   /\ Len(Fetches) = CeilDiv(n, batch_size)
                   /\ ids_so_far = campaign_ids
                   /\ batch_return = Some(ConcatData(Fetches))
                   /\ batch_events # <<>> => batch_events[Len(batch_events)].kind = "fetch"
            /\ batch_pc = "raised" =>
                   /\ batch_return = None
                   /\ batch_events # <<>>
                   /\ batch_events[Len(batch_events)].kind = "fetch"
                   /\ batch_events[Len(batch_events)].raised

\* five ids in batches of two: three batches, two waits, the results in order
C25_Witness ==
    /\ batch_pc = "returned"
    /\ Len(campaign_ids) = 5
    /\ batch_size = 2
    /\ Len(batch_events) = 5
    /\ Fetches[3].ids = <<15>>
    /\ Fetches[2].data = <<>>
    /\ batch_return = Some(<<[advertId |-> 11], [advertId |-> 12], [advertId |-> 15]>>)

(***************************************************************************)
(* Properties of the two upsert batches of the CR pipeline.                *)
(***************************************************************************)

DatedToday(r) == r.date_of_period = today

DatedYesterday(r) == r.date_of_period = today - 1

\* C26: the call of upsert_records for today comes first and holds exactly
\* the enriched records dated today; the call for yesterday holds exactly
\* those dated yesterday, none of them with stocks_mp or stocks_wb; every
\* enriched record is in exactly one of the two; and after a today call that
\* raised no yesterday call is made.
C26_UpsertBatches ==
    (cr_log # None /\ cr_log[1].enriched # <<>>) =>
        LET run == cr_log[1]
        IN  /\ Len(run.calls) \in {1, 2}
            /\ run.calls[1] = UpsertCall("today", SelectSeq(run.enriched, DatedToday))
            /\ Len(run.calls) = 1 <=> run.raised_in = "today"
            /\ Len(run.calls) = 2 =>
                   /\ run.calls[2] =
                          UpsertCall("yesterday", SelectSeq(run.enriched, DatedYesterday))
                   /\ \A i \in 1 .. Len(run.calls[2].records) :
                          {"stocks_mp", "stocks_wb"} \cap DOMAIN run.calls[2].records[i] = {}
            /\ \A i \in 1 .. Len(run.enriched) :
                   DatedToday(run.enriched[i]) # DatedYesterday(run.enriched[i])
            /\ Len(SelectSeq(run.enriched, DatedToday))
                   + Len(SelectSeq(run.enriched, DatedYesterday)) = Len(run.enriched)

\* a card of article 1 and a card of an article products does not know: one
\* record in each batch, and the second call raised after the first was made
C26_Witness ==
    /\ cr_log # None
    /\ Len(api_response.cards) = 2
    /\ Len(records_today) = 2
    /\ Len(records_yesterday) = 2
    /\ Len(cr_log[1].enriched) = 2
    /\ Len(cr_log[1].calls) = 2
    /\ Len(cr_log[1].calls[1].records) = 1
    /\ Len(cr_log[1].calls[2].records) = 1
    /\ cr_log[1].calls[1].records[1].nm_id = 1
    /\ cr_log[1].calls[1].records[1].product_id = 11
    /\ "stocks_mp" \in DOMAIN cr_log[1].calls[1].records[1]
    /\ cr_log[1].raised_in = "yesterday"

(***************************************************************************)
(* Property of the dates of a CR run.                                      *)
(***************************************************************************)

\* C27: the date_of_period of the selectedPeriod records of a run is the
\* Europe/Moscow day of the period begin sent in the request of that run,
\* wherever midnight falls between the import of the API module and the call
\* of the builder.
C27_DateIsPeriodBegin ==
    cr_pc = "extracted" =>
        \A i \in 1 .. Len(records_today) :
            records_today[i].date_of_period = period_begin[1]

(***************************************************************************)
(* Properties of the in-process aggregation.                               *)
(***************************************************************************)

\* C28: the batch insert_adv_params_direct upserts on conflict (nm_id, date)
\* holds pairwise distinct (nm_id, date) keys, whatever the detail table
\* holds after any runs, rows of one article and date with different
\* vendor codes included.
C28_DistinctAggregateKeys ==
    adv_params_records # None =>
        \A r1, r2 \in adv_params_records[1] :
            (r1.nm_id = r2.nm_id /\ r1.date = r2.date) => r1 = r2

\* C29: cpc, ctr and cpm of every aggregated record are what _calculate_cpc,
\* _calculate_ctr and _calculate_cpm give for the group's sums, converted as
\* to_dict converts them: non-null iff the denominator is positive, also
\* when the value is 0.00.
C29_AgreesWithCalculator ==
    adv_params_records # None =>
        \A r \in adv_params_records[1] :
            /\ r.cpc = FloatIfNotNone(_calculate_cpc(r.sum, r.clicks))
            /\ r.ctr = FloatIfNotNone(_calculate_ctr(r.clicks, r.views))
            /\ r.cpm = FloatIfNotNone(_calculate_cpm(r.sum, r.views))

(***************************************************************************)
(* Properties of the normalisation of the content cards.                   *)
(***************************************************************************)

\* C30: whatever the cards, cards of one nmID and cards failing a product
\* check included, products_data holds at most one entry per nm_id,
\* product_sizes_data at most one entry per barcode, and the nm_id of every
\* entry of product_sizes_data is the nm_id of an entry of products_data.
C30_NormalizedKeys ==
    products_data # None =>
        LET P == products_data[1]
            S == product_sizes_data[1]
        IN  /\ \A i, j \in 1 .. Len(P) : P[i].nm_id = P[j].nm_id => i = j
            /\ \A i, j \in 1 .. Len(S) : S[i].barcode = S[j].barcode => i = j
            /\ \A i \in 1 .. Len(S) : \E j \in 1 .. Len(P) : P[j].nm_id = S[i].nm_id

====
